---------------------------- MODULE Spec2Model ----------------------------
(***************************************************************************)
(* Model of the recommendation engine of src/maga/program_analyzer.py      *)
(* (class ProgramAnalyzer).                                                *)
(*                                                                         *)
(* Strings.  A Python str is modelled as the sequence of its Unicode code  *)
(* points, so that str.lower() and the substring test `k in s` are         *)
(* computed character by character, as Python computes them.  The comment  *)
(* above every line of code points gives the strings of that line.         *)
(*                                                                         *)
(* Numbers.  Scores are Python floats that are sums of 0.5, 1.0, 1.5, 2.0, *)
(* 2.5 and 3.0; every such sum is exact in binary floating point.  The     *)
(* model keeps them as integers in TENTHS: 20 is 2.0, 15 is 1.5.           *)
(***************************************************************************)
EXTENDS Integers, Sequences, FiniteSets, TLC

VARIABLES
    programs,         \* self.programs: the catalog the engine was built from
    course_index,     \* self.course_index, built by _build_course_index
    course_clusters,  \* self.course_clusters, built by _build_course_clusters
    skill_mapping,    \* self.skill_mapping, built by _build_skill_mapping
    pc,               \* "start" before the call under study, "done" after it
    op,               \* the operation that was called ("none" before the call)
    background,       \* argument: the applicant's free text
    profile,          \* BackgroundProfile: result of _analyze_background / argument of the scorer
    course,           \* argument: the Course to score
    program,          \* argument: the Program whose courses are ranked
    frame,            \* locals of _evaluate_course_intelligently when it returns
    recommendation,   \* result of _evaluate_course_intelligently
    elective_courses, \* local of _get_program_recommendations: the courses it scored
    recommendations,  \* result of _get_program_recommendations
    user_type,        \* local of get_course_recommendations: the archetype
    report,           \* result of get_course_recommendations: its verdict lines
    argument,         \* argument of a report method: a program name or keywords
    returned,         \* result of a report method or of _get_cluster_recommendations
    calls,            \* for every caller that shares the engine: its call and the result
    locals,           \* for every caller: the local variables of its running call
    bot,              \* the ITMOTelegramBot: its programs, analyzer and user_states
    parser            \* the ITMOWebParser: its session

\* the attributes of the engine
engine == <<programs, course_index, course_clusters, skill_mapping>>

vars == <<programs, course_index, course_clusters, skill_mapping, pc, op, background,
          profile, course, program, frame, recommendation, elective_courses,
          recommendations, user_type, report, argument, returned, calls, locals, bot, parser>>

---------------------------------------------------------------------------
(* Python str primitives *)

\* str.lower() on one character: A-Z, the Cyrillic capitals (U+0410..U+042F)
\* and U+0401 have a lower-case form; every other character used is unchanged.
LowerChar(c) ==
    IF (c >= 65 /\ c <= 90) \/ (c >= 1040 /\ c <= 1071) THEN c + 32
    ELSE IF c = 1025 THEN 1105
    ELSE c

\* s.lower()
Lower(s) == [i \in 1..Len(s) |-> LowerChar(s[i])]

\* k in s  (substring test)
Contains(k, s) ==
    \E i \in 0..(Len(s) - Len(k)) : \A j \in 1..Len(k) : s[i + j] = k[j]

\* any(keyword in s for keyword in keywords)
AnyIn(keywords, s) == \E n \in 1..Len(keywords) : Contains(keywords[n], s)

\* x in list
InList(x, list) == \E n \in 1..Len(list) : list[n] = x

---------------------------------------------------------------------------
(* Keyword tables of _analyze_background.  A Python dict is modelled as the *)
(* sequence of its items in insertion order, which is its iteration order.  *)

programming_keywords ==
    \* "python"
    << [key |-> <<112,121,116,104,111,110>>, keywords |->
          \* "python"  "питон"  "программирую на python"
          << <<112,121,116,104,111,110>>, <<1087,1080,1090,1086,1085>>, <<1087,1088,1086,1075,1088,1072,1084,1084,1080,1088,1091,1102,32,1085,1072,32,112,121,116,104,111,110>>,
             \* "знаю python"  "работаю с python"
             <<1079,1085,1072,1102,32,112,121,116,104,111,110>>, <<1088,1072,1073,1086,1090,1072,1102,32,1089,32,112,121,116,104,111,110>> >>],
       \* "java"
       [key |-> <<106,97,118,97>>, keywords |->
          \* "java"  "джава"  "программирую на java"
          << <<106,97,118,97>>, <<1076,1078,1072,1074,1072>>, <<1087,1088,1086,1075,1088,1072,1084,1084,1080,1088,1091,1102,32,1085,1072,32,106,97,118,97>>,
             \* "знаю java"  "работаю с java"
             <<1079,1085,1072,1102,32,106,97,118,97>>, <<1088,1072,1073,1086,1090,1072,1102,32,1089,32,106,97,118,97>> >>],
       \* "c++"
       [key |-> <<99,43,43>>, keywords |->
          \* "c++"  "cpp"  "си плюс плюс"
          << <<99,43,43>>, <<99,112,112>>, <<1089,1080,32,1087,1083,1102,1089,32,1087,1083,1102,1089>>,
             \* "программирую на c++"  "знаю c++"
             <<1087,1088,1086,1075,1088,1072,1084,1084,1080,1088,1091,1102,32,1085,1072,32,99,43,43>>, <<1079,1085,1072,1102,32,99,43,43>> >>],
       \* "javascript"
       [key |-> <<106,97,118,97,115,99,114,105,112,116>>, keywords |->
          \* "javascript"  "js"  "джаваскрипт"
          << <<106,97,118,97,115,99,114,105,112,116>>, <<106,115>>, <<1076,1078,1072,1074,1072,1089,1082,1088,1080,1087,1090>>,
             \* "программирую на js"  "знаю js"
             <<1087,1088,1086,1075,1088,1072,1084,1084,1080,1088,1091,1102,32,1085,1072,32,106,115>>, <<1079,1085,1072,1102,32,106,115>> >>],
       \* "web"
       [key |-> <<119,101,98>>, keywords |->
          \* "веб"  "web"  "html"  "css"  "frontend"
          << <<1074,1077,1073>>, <<119,101,98>>, <<104,116,109,108>>, <<99,115,115>>, <<102,114,111,110,116,101,110,100>>,
             \* "backend"  "fullstack"  "веб-разработка"  "делаю сайты"
             <<98,97,99,107,101,110,100>>, <<102,117,108,108,115,116,97,99,107>>, <<1074,1077,1073,45,1088,1072,1079,1088,1072,1073,1086,1090,1082,1072>>, <<1076,1077,1083,1072,1102,32,1089,1072,1081,1090,1099>> >>],
       \* "mobile"
       [key |-> <<109,111,98,105,108,101>>, keywords |->
          \* "мобильная разработка"  "android"  "ios"
          << <<1084,1086,1073,1080,1083,1100,1085,1072,1103,32,1088,1072,1079,1088,1072,1073,1086,1090,1082,1072>>, <<97,110,100,114,111,105,100>>, <<105,111,115>>,
             \* "react native"  "flutter"  "мобильные приложения"
             <<114,101,97,99,116,32,110,97,116,105,118,101>>, <<102,108,117,116,116,101,114>>, <<1084,1086,1073,1080,1083,1100,1085,1099,1077,32,1087,1088,1080,1083,1086,1078,1077,1085,1080,1103>>,
             \* "разрабатываю приложения"
             <<1088,1072,1079,1088,1072,1073,1072,1090,1099,1074,1072,1102,32,1087,1088,1080,1083,1086,1078,1077,1085,1080,1103>> >>],
       \* "blockchain"
       [key |-> <<98,108,111,99,107,99,104,97,105,110>>, keywords |->
          \* "блокчейн"  "blockchain"  "криптовалюта"
          << <<1073,1083,1086,1082,1095,1077,1081,1085>>, <<98,108,111,99,107,99,104,97,105,110>>, <<1082,1088,1080,1087,1090,1086,1074,1072,1083,1102,1090,1072>>,
             \* "смарт-контракт"  "defi"
             <<1089,1084,1072,1088,1090,45,1082,1086,1085,1090,1088,1072,1082,1090>>, <<100,101,102,105>> >>],
       \* "ai"
       [key |-> <<97,105>>, keywords |->
          \* "искусственный интеллект"  "ai"  "машинное обучение"
          << <<1080,1089,1082,1091,1089,1089,1090,1074,1077,1085,1085,1099,1081,32,1080,1085,1090,1077,1083,1083,1077,1082,1090>>, <<97,105>>, <<1084,1072,1096,1080,1085,1085,1086,1077,32,1086,1073,1091,1095,1077,1085,1080,1077>>,
             \* "нейронные сети"  "data science"
             <<1085,1077,1081,1088,1086,1085,1085,1099,1077,32,1089,1077,1090,1080>>, <<100,97,116,97,32,115,99,105,101,110,99,101>> >>],
       \* "data"
       [key |-> <<100,97,116,97>>, keywords |->
          \* "данные"  "data"  "анализ данных"  "big data"
          << <<1076,1072,1085,1085,1099,1077>>, <<100,97,116,97>>, <<1072,1085,1072,1083,1080,1079,32,1076,1072,1085,1085,1099,1093>>, <<98,105,103,32,100,97,116,97>>,
             \* "база данных"  "работаю с данными"
             <<1073,1072,1079,1072,32,1076,1072,1085,1085,1099,1093>>, <<1088,1072,1073,1086,1090,1072,1102,32,1089,32,1076,1072,1085,1085,1099,1084,1080>> >>],
       \* "devops"
       [key |-> <<100,101,118,111,112,115>>, keywords |->
          \* "devops"  "инфраструктура"  "docker"  "kubernetes"
          << <<100,101,118,111,112,115>>, <<1080,1085,1092,1088,1072,1089,1090,1088,1091,1082,1090,1091,1088,1072>>, <<100,111,99,107,101,114>>, <<107,117,98,101,114,110,101,116,101,115>>,
             \* "ci/cd"  "развертывание"
             <<99,105,47,99,100>>, <<1088,1072,1079,1074,1077,1088,1090,1099,1074,1072,1085,1080,1077>> >>],
       \* "general"
       [key |-> <<103,101,110,101,114,97,108>>, keywords |->
          \* "техническое"  "технический"  "инженер"  "инженерный"
          << <<1090,1077,1093,1085,1080,1095,1077,1089,1082,1086,1077>>, <<1090,1077,1093,1085,1080,1095,1077,1089,1082,1080,1081>>, <<1080,1085,1078,1077,1085,1077,1088>>, <<1080,1085,1078,1077,1085,1077,1088,1085,1099,1081>>,
             \* "разработка"  "разработчик"  "программирование"  "код"
             <<1088,1072,1079,1088,1072,1073,1086,1090,1082,1072>>, <<1088,1072,1079,1088,1072,1073,1086,1090,1095,1080,1082>>, <<1087,1088,1086,1075,1088,1072,1084,1084,1080,1088,1086,1074,1072,1085,1080,1077>>, <<1082,1086,1076>>,
             \* "программист"
             <<1087,1088,1086,1075,1088,1072,1084,1084,1080,1089,1090>> >> ] >>

negation_phrases ==
    \* "не знаю"  "не умею"  "не понимаю"  "не владею"  "не программирую"
    << <<1085,1077,32,1079,1085,1072,1102>>, <<1085,1077,32,1091,1084,1077,1102>>, <<1085,1077,32,1087,1086,1085,1080,1084,1072,1102>>, <<1085,1077,32,1074,1083,1072,1076,1077,1102>>, <<1085,1077,32,1087,1088,1086,1075,1088,1072,1084,1084,1080,1088,1091,1102>> >>

math_keywords ==
    \* "математика"
    << [key |-> <<1084,1072,1090,1077,1084,1072,1090,1080,1082,1072>>, keywords |->
          \* "математика"  "математический"  "алгебра"  "геометрия"
          << <<1084,1072,1090,1077,1084,1072,1090,1080,1082,1072>>, <<1084,1072,1090,1077,1084,1072,1090,1080,1095,1077,1089,1082,1080,1081>>, <<1072,1083,1075,1077,1073,1088,1072>>, <<1075,1077,1086,1084,1077,1090,1088,1080,1103>>,
             \* "анализ"  "математик"  "хорошо знаю математику"
             <<1072,1085,1072,1083,1080,1079>>, <<1084,1072,1090,1077,1084,1072,1090,1080,1082>>, <<1093,1086,1088,1086,1096,1086,32,1079,1085,1072,1102,32,1084,1072,1090,1077,1084,1072,1090,1080,1082,1091>>,
             \* "силен в математике"  "люблю математику"
             <<1089,1080,1083,1077,1085,32,1074,32,1084,1072,1090,1077,1084,1072,1090,1080,1082,1077>>, <<1083,1102,1073,1083,1102,32,1084,1072,1090,1077,1084,1072,1090,1080,1082,1091>> >>],
       \* "статистика"
       [key |-> <<1089,1090,1072,1090,1080,1089,1090,1080,1082,1072>>, keywords |->
          \* "статистика"  "статистический"  "вероятность"
          << <<1089,1090,1072,1090,1080,1089,1090,1080,1082,1072>>, <<1089,1090,1072,1090,1080,1089,1090,1080,1095,1077,1089,1082,1080,1081>>, <<1074,1077,1088,1086,1103,1090,1085,1086,1089,1090,1100>>,
             \* "математическая статистика"  "работаю со статистикой"
             <<1084,1072,1090,1077,1084,1072,1090,1080,1095,1077,1089,1082,1072,1103,32,1089,1090,1072,1090,1080,1089,1090,1080,1082,1072>>, <<1088,1072,1073,1086,1090,1072,1102,32,1089,1086,32,1089,1090,1072,1090,1080,1089,1090,1080,1082,1086,1081>>,
             \* "анализирую данные"
             <<1072,1085,1072,1083,1080,1079,1080,1088,1091,1102,32,1076,1072,1085,1085,1099,1077>> >>],
       \* "линейная алгебра"
       [key |-> <<1083,1080,1085,1077,1081,1085,1072,1103,32,1072,1083,1075,1077,1073,1088,1072>>, keywords |->
          \* "линейная алгебра"  "матрицы"  "векторы"
          << <<1083,1080,1085,1077,1081,1085,1072,1103,32,1072,1083,1075,1077,1073,1088,1072>>, <<1084,1072,1090,1088,1080,1094,1099>>, <<1074,1077,1082,1090,1086,1088,1099>>,
             \* "линейные преобразования"
             <<1083,1080,1085,1077,1081,1085,1099,1077,32,1087,1088,1077,1086,1073,1088,1072,1079,1086,1074,1072,1085,1080,1103>> >>],
       \* "математический анализ"
       [key |-> <<1084,1072,1090,1077,1084,1072,1090,1080,1095,1077,1089,1082,1080,1081,32,1072,1085,1072,1083,1080,1079>>, keywords |->
          \* "математический анализ"  "дифференциальные уравнения"
          << <<1084,1072,1090,1077,1084,1072,1090,1080,1095,1077,1089,1082,1080,1081,32,1072,1085,1072,1083,1080,1079>>, <<1076,1080,1092,1092,1077,1088,1077,1085,1094,1080,1072,1083,1100,1085,1099,1077,32,1091,1088,1072,1074,1085,1077,1085,1080,1103>>,
             \* "интегралы"
             <<1080,1085,1090,1077,1075,1088,1072,1083,1099>> >>],
       \* "дискретная математика"
       [key |-> <<1076,1080,1089,1082,1088,1077,1090,1085,1072,1103,32,1084,1072,1090,1077,1084,1072,1090,1080,1082,1072>>, keywords |->
          \* "дискретная математика"  "комбинаторика"  "теория графов"
          << <<1076,1080,1089,1082,1088,1077,1090,1085,1072,1103,32,1084,1072,1090,1077,1084,1072,1090,1080,1082,1072>>, <<1082,1086,1084,1073,1080,1085,1072,1090,1086,1088,1080,1082,1072>>, <<1090,1077,1086,1088,1080,1103,32,1075,1088,1072,1092,1086,1074>> >>],
       \* "алгоритмы"
       [key |-> <<1072,1083,1075,1086,1088,1080,1090,1084,1099>>, keywords |->
          \* "алгоритм"  "алгоритмы"  "структуры данных"  "сложность"
          << <<1072,1083,1075,1086,1088,1080,1090,1084>>, <<1072,1083,1075,1086,1088,1080,1090,1084,1099>>, <<1089,1090,1088,1091,1082,1090,1091,1088,1099,32,1076,1072,1085,1085,1099,1093>>, <<1089,1083,1086,1078,1085,1086,1089,1090,1100>>,
             \* "оптимизация"
             <<1086,1087,1090,1080,1084,1080,1079,1072,1094,1080,1103>> >>],
       \* "логика"
       [key |-> <<1083,1086,1075,1080,1082,1072>>, keywords |->
          \* "логика"  "логический"  "теория множеств"
          << <<1083,1086,1075,1080,1082,1072>>, <<1083,1086,1075,1080,1095,1077,1089,1082,1080,1081>>, <<1090,1077,1086,1088,1080,1103,32,1084,1085,1086,1078,1077,1089,1090,1074>>,
             \* "математическая логика"
             <<1084,1072,1090,1077,1084,1072,1090,1080,1095,1077,1089,1082,1072,1103,32,1083,1086,1075,1080,1082,1072>> >>] >>

business_keywords ==
    \* "менеджмент"
    << [key |-> <<1084,1077,1085,1077,1076,1078,1084,1077,1085,1090>>, keywords |->
          \* "менеджмент"  "управление"  "бизнес"  "предпринимательство"
          << <<1084,1077,1085,1077,1076,1078,1084,1077,1085,1090>>, <<1091,1087,1088,1072,1074,1083,1077,1085,1080,1077>>, <<1073,1080,1079,1085,1077,1089>>, <<1087,1088,1077,1076,1087,1088,1080,1085,1080,1084,1072,1090,1077,1083,1100,1089,1090,1074,1086>>,
             \* "менеджер"  "руковожу"  "управляю командой"
             <<1084,1077,1085,1077,1076,1078,1077,1088>>, <<1088,1091,1082,1086,1074,1086,1078,1091>>, <<1091,1087,1088,1072,1074,1083,1103,1102,32,1082,1086,1084,1072,1085,1076,1086,1081>>,
             \* "работаю в менеджменте"
             <<1088,1072,1073,1086,1090,1072,1102,32,1074,32,1084,1077,1085,1077,1076,1078,1084,1077,1085,1090,1077>> >>],
       \* "маркетинг"
       [key |-> <<1084,1072,1088,1082,1077,1090,1080,1085,1075>>, keywords |->
          \* "маркетинг"  "реклама"  "продвижение"  "продажи"
          << <<1084,1072,1088,1082,1077,1090,1080,1085,1075>>, <<1088,1077,1082,1083,1072,1084,1072>>, <<1087,1088,1086,1076,1074,1080,1078,1077,1085,1080,1077>>, <<1087,1088,1086,1076,1072,1078,1080>>,
             \* "маркетолог"  "работаю в маркетинге"  "занимаюсь продвижением"
             <<1084,1072,1088,1082,1077,1090,1086,1083,1086,1075>>, <<1088,1072,1073,1086,1090,1072,1102,32,1074,32,1084,1072,1088,1082,1077,1090,1080,1085,1075,1077>>, <<1079,1072,1085,1080,1084,1072,1102,1089,1100,32,1087,1088,1086,1076,1074,1080,1078,1077,1085,1080,1077,1084>> >>],
       \* "экономика"
       [key |-> <<1101,1082,1086,1085,1086,1084,1080,1082,1072>>, keywords |->
          \* "экономика"  "экономический"  "финансы"  "бухгалтерия"
          << <<1101,1082,1086,1085,1086,1084,1080,1082,1072>>, <<1101,1082,1086,1085,1086,1084,1080,1095,1077,1089,1082,1080,1081>>, <<1092,1080,1085,1072,1085,1089,1099>>, <<1073,1091,1093,1075,1072,1083,1090,1077,1088,1080,1103>>,
             \* "экономист"  "работаю с финансами"
             <<1101,1082,1086,1085,1086,1084,1080,1089,1090>>, <<1088,1072,1073,1086,1090,1072,1102,32,1089,32,1092,1080,1085,1072,1085,1089,1072,1084,1080>> >>],
       \* "проектное управление"
       [key |-> <<1087,1088,1086,1077,1082,1090,1085,1086,1077,32,1091,1087,1088,1072,1074,1083,1077,1085,1080,1077>>, keywords |->
          \* "проектное управление"  "agile"  "scrum"  "kanban"
          << <<1087,1088,1086,1077,1082,1090,1085,1086,1077,32,1091,1087,1088,1072,1074,1083,1077,1085,1080,1077>>, <<97,103,105,108,101>>, <<115,99,114,117,109>>, <<107,97,110,98,97,110>>,
             \* "project manager"  "управляю проектами"  "работаю по agile"
             <<112,114,111,106,101,99,116,32,109,97,110,97,103,101,114>>, <<1091,1087,1088,1072,1074,1083,1103,1102,32,1087,1088,1086,1077,1082,1090,1072,1084,1080>>, <<1088,1072,1073,1086,1090,1072,1102,32,1087,1086,32,97,103,105,108,101>> >>],
       \* "продукт"
       [key |-> <<1087,1088,1086,1076,1091,1082,1090>>, keywords |->
          \* "продукт"  "product"  "продуктовая аналитика"
          << <<1087,1088,1086,1076,1091,1082,1090>>, <<112,114,111,100,117,99,116>>, <<1087,1088,1086,1076,1091,1082,1090,1086,1074,1072,1103,32,1072,1085,1072,1083,1080,1090,1080,1082,1072>>,
             \* "product manager"  "работаю с продуктами"
             <<112,114,111,100,117,99,116,32,109,97,110,97,103,101,114>>, <<1088,1072,1073,1086,1090,1072,1102,32,1089,32,1087,1088,1086,1076,1091,1082,1090,1072,1084,1080>>,
             \* "продуктовый менеджер"
             <<1087,1088,1086,1076,1091,1082,1090,1086,1074,1099,1081,32,1084,1077,1085,1077,1076,1078,1077,1088>> >>],
       \* "стратегия"
       [key |-> <<1089,1090,1088,1072,1090,1077,1075,1080,1103>>, keywords |->
          \* "стратегия"  "стратегический"  "планирование"
          << <<1089,1090,1088,1072,1090,1077,1075,1080,1103>>, <<1089,1090,1088,1072,1090,1077,1075,1080,1095,1077,1089,1082,1080,1081>>, <<1087,1083,1072,1085,1080,1088,1086,1074,1072,1085,1080,1077>>,
             \* "анализ рынка"  "стратегическое планирование"
             <<1072,1085,1072,1083,1080,1079,32,1088,1099,1085,1082,1072>>, <<1089,1090,1088,1072,1090,1077,1075,1080,1095,1077,1089,1082,1086,1077,32,1087,1083,1072,1085,1080,1088,1086,1074,1072,1085,1080,1077>> >>] >>

research_keywords ==
    \* "исследование"  "наука"  "публикация"  "конференция"
    << <<1080,1089,1089,1083,1077,1076,1086,1074,1072,1085,1080,1077>>, <<1085,1072,1091,1082,1072>>, <<1087,1091,1073,1083,1080,1082,1072,1094,1080,1103>>, <<1082,1086,1085,1092,1077,1088,1077,1085,1094,1080,1103>>,
       \* "статья"  "лаборатория"
       <<1089,1090,1072,1090,1100,1103>>, <<1083,1072,1073,1086,1088,1072,1090,1086,1088,1080,1103>> >>

education_keywords ==
    \* "бакалавриат"
    << [key |-> <<1073,1072,1082,1072,1083,1072,1074,1088,1080,1072,1090>>, keywords |->
          \* "бакалавр"  "бакалавриат"  "высшее образование"
          << <<1073,1072,1082,1072,1083,1072,1074,1088>>, <<1073,1072,1082,1072,1083,1072,1074,1088,1080,1072,1090>>, <<1074,1099,1089,1096,1077,1077,32,1086,1073,1088,1072,1079,1086,1074,1072,1085,1080,1077>> >>],
       \* "магистратура"
       [key |-> <<1084,1072,1075,1080,1089,1090,1088,1072,1090,1091,1088,1072>>, keywords |->
          \* "магистр"  "магистратура"
          << <<1084,1072,1075,1080,1089,1090,1088>>, <<1084,1072,1075,1080,1089,1090,1088,1072,1090,1091,1088,1072>> >>],
       \* "аспирантура"
       [key |-> <<1072,1089,1087,1080,1088,1072,1085,1090,1091,1088,1072>>, keywords |->
          \* "аспирант"  "аспирантура"  "кандидат наук"
          << <<1072,1089,1087,1080,1088,1072,1085,1090>>, <<1072,1089,1087,1080,1088,1072,1085,1090,1091,1088,1072>>, <<1082,1072,1085,1076,1080,1076,1072,1090,32,1085,1072,1091,1082>> >>],
       \* "техническое"
       [key |-> <<1090,1077,1093,1085,1080,1095,1077,1089,1082,1086,1077>>, keywords |->
          \* "техническое образование"  "технический"  "инженерное"
          << <<1090,1077,1093,1085,1080,1095,1077,1089,1082,1086,1077,32,1086,1073,1088,1072,1079,1086,1074,1072,1085,1080,1077>>, <<1090,1077,1093,1085,1080,1095,1077,1089,1082,1080,1081>>, <<1080,1085,1078,1077,1085,1077,1088,1085,1086,1077>>,
             \* "инженерный"  "техническое"
             <<1080,1085,1078,1077,1085,1077,1088,1085,1099,1081>>, <<1090,1077,1093,1085,1080,1095,1077,1089,1082,1086,1077>> >>] >>

experience_keywords ==
    \* "работаю"  "работал"  "опыт работы"  "стаж"  "программист"
    << <<1088,1072,1073,1086,1090,1072,1102>>, <<1088,1072,1073,1086,1090,1072,1083>>, <<1086,1087,1099,1090,32,1088,1072,1073,1086,1090,1099>>, <<1089,1090,1072,1078>>, <<1087,1088,1086,1075,1088,1072,1084,1084,1080,1089,1090>>,
       \* "разработчик"  "инженер"  "аналитик"  "менеджер"  "специалист"
       <<1088,1072,1079,1088,1072,1073,1086,1090,1095,1080,1082>>, <<1080,1085,1078,1077,1085,1077,1088>>, <<1072,1085,1072,1083,1080,1090,1080,1082>>, <<1084,1077,1085,1077,1076,1078,1077,1088>>, <<1089,1087,1077,1094,1080,1072,1083,1080,1089,1090>>,
       \* "опыт в разработке"  "опыт разработки"  "опыт"  "разработка"
       <<1086,1087,1099,1090,32,1074,32,1088,1072,1079,1088,1072,1073,1086,1090,1082,1077>>, <<1086,1087,1099,1090,32,1088,1072,1079,1088,1072,1073,1086,1090,1082,1080>>, <<1086,1087,1099,1090>>, <<1088,1072,1079,1088,1072,1073,1086,1090,1082,1072>>,
       \* "код"  "программирование"
       <<1082,1086,1076>>, <<1087,1088,1086,1075,1088,1072,1084,1084,1080,1088,1086,1074,1072,1085,1080,1077>> >>

career_keywords ==
    \* "ML Engineer"
    << [key |-> <<77,76,32,69,110,103,105,110,101,101,114>>, keywords |->
          \* "ml engineer"  "машинное обучение"  "инженер ml"
          << <<109,108,32,101,110,103,105,110,101,101,114>>, <<1084,1072,1096,1080,1085,1085,1086,1077,32,1086,1073,1091,1095,1077,1085,1080,1077>>, <<1080,1085,1078,1077,1085,1077,1088,32,109,108>>,
             \* "ml разработчик"
             <<109,108,32,1088,1072,1079,1088,1072,1073,1086,1090,1095,1080,1082>> >>],
       \* "Data Scientist"
       [key |-> <<68,97,116,97,32,83,99,105,101,110,116,105,115,116>>, keywords |->
          \* "data scientist"  "ученый по данным"  "аналитик данных"
          << <<100,97,116,97,32,115,99,105,101,110,116,105,115,116>>, <<1091,1095,1077,1085,1099,1081,32,1087,1086,32,1076,1072,1085,1085,1099,1084>>, <<1072,1085,1072,1083,1080,1090,1080,1082,32,1076,1072,1085,1085,1099,1093>> >>],
       \* "AI Developer"
       [key |-> <<65,73,32,68,101,118,101,108,111,112,101,114>>, keywords |->
          \* "ai developer"  "разработчик ии"  "разработчик ai"
          << <<97,105,32,100,101,118,101,108,111,112,101,114>>, <<1088,1072,1079,1088,1072,1073,1086,1090,1095,1080,1082,32,1080,1080>>, <<1088,1072,1079,1088,1072,1073,1086,1090,1095,1080,1082,32,97,105>> >>],
       \* "Product Manager"
       [key |-> <<80,114,111,100,117,99,116,32,77,97,110,97,103,101,114>>, keywords |->
          \* "product manager"  "продукт менеджер"  "менеджер продукта"
          << <<112,114,111,100,117,99,116,32,109,97,110,97,103,101,114>>, <<1087,1088,1086,1076,1091,1082,1090,32,1084,1077,1085,1077,1076,1078,1077,1088>>, <<1084,1077,1085,1077,1076,1078,1077,1088,32,1087,1088,1086,1076,1091,1082,1090,1072>> >>],
       \* "AI Product Manager"
       [key |-> <<65,73,32,80,114,111,100,117,99,116,32,77,97,110,97,103,101,114>>, keywords |->
          \* "ai product manager"  "продукт менеджер ai"
          << <<97,105,32,112,114,111,100,117,99,116,32,109,97,110,97,103,101,114>>, <<1087,1088,1086,1076,1091,1082,1090,32,1084,1077,1085,1077,1076,1078,1077,1088,32,97,105>> >>],
       \* "Business Analyst"
       [key |-> <<66,117,115,105,110,101,115,115,32,65,110,97,108,121,115,116>>, keywords |->
          \* "business analyst"  "бизнес аналитик"  "аналитик"
          << <<98,117,115,105,110,101,115,115,32,97,110,97,108,121,115,116>>, <<1073,1080,1079,1085,1077,1089,32,1072,1085,1072,1083,1080,1090,1080,1082>>, <<1072,1085,1072,1083,1080,1090,1080,1082>> >>],
       \* "AI Researcher"
       [key |-> <<65,73,32,82,101,115,101,97,114,99,104,101,114>>, keywords |->
          \* "ai researcher"  "исследователь ии"  "ученый ии"
          << <<97,105,32,114,101,115,101,97,114,99,104,101,114>>, <<1080,1089,1089,1083,1077,1076,1086,1074,1072,1090,1077,1083,1100,32,1080,1080>>, <<1091,1095,1077,1085,1099,1081,32,1080,1080>> >>] >>

\* the four learning-preference tests, in the order of their if statements
learning_keywords ==
    \* "практико-ориентированное"
    << [key |-> <<1087,1088,1072,1082,1090,1080,1082,1086,45,1086,1088,1080,1077,1085,1090,1080,1088,1086,1074,1072,1085,1085,1086,1077>>, keywords |->
          \* "практика"  "проекты"  "реальные задачи"
          << <<1087,1088,1072,1082,1090,1080,1082,1072>>, <<1087,1088,1086,1077,1082,1090,1099>>, <<1088,1077,1072,1083,1100,1085,1099,1077,32,1079,1072,1076,1072,1095,1080>> >>],
       \* "теоретическое"
       [key |-> <<1090,1077,1086,1088,1077,1090,1080,1095,1077,1089,1082,1086,1077>>, keywords |->
          \* "теория"  "наука"  "исследование"
          << <<1090,1077,1086,1088,1080,1103>>, <<1085,1072,1091,1082,1072>>, <<1080,1089,1089,1083,1077,1076,1086,1074,1072,1085,1080,1077>> >>],
       \* "групповое"
       [key |-> <<1075,1088,1091,1087,1087,1086,1074,1086,1077>>, keywords |->
          \* "группа"  "команда"  "совместно"
          << <<1075,1088,1091,1087,1087,1072>>, <<1082,1086,1084,1072,1085,1076,1072>>, <<1089,1086,1074,1084,1077,1089,1090,1085,1086>> >>],
       \* "индивидуальное"
       [key |-> <<1080,1085,1076,1080,1074,1080,1076,1091,1072,1083,1100,1085,1086,1077>>, keywords |->
          \* "индивидуально"  "самостоятельно"
          << <<1080,1085,1076,1080,1074,1080,1076,1091,1072,1083,1100,1085,1086>>, <<1089,1072,1084,1086,1089,1090,1086,1103,1090,1077,1083,1100,1085,1086>> >>] >>

\* "полный день"  "очная"  "дневная"
full_time_keywords == << <<1087,1086,1083,1085,1099,1081,32,1076,1077,1085,1100>>, <<1086,1095,1085,1072,1103>>, <<1076,1085,1077,1074,1085,1072,1103>> >>

\* "вечерняя"  "заочная"  "частичная"
part_time_keywords == << <<1074,1077,1095,1077,1088,1085,1103,1103>>, <<1079,1072,1086,1095,1085,1072,1103>>, <<1095,1072,1089,1090,1080,1095,1085,1072,1103>> >>

\* the values of the single-valued profile fields
\* "нет опыта"
NO_EXPERIENCE == <<1085,1077,1090,32,1086,1087,1099,1090,1072>>

\* "есть опыт"
HAS_EXPERIENCE == <<1077,1089,1090,1100,32,1086,1087,1099,1090>>

\* "стандартная"
TIME_STANDARD == <<1089,1090,1072,1085,1076,1072,1088,1090,1085,1072,1103>>

\* "полный день"
TIME_FULL == <<1087,1086,1083,1085,1099,1081,32,1076,1077,1085,1100>>

\* "частичная"
TIME_PART == <<1095,1072,1089,1090,1080,1095,1085,1072,1103>>

\* "бакалавриат"
EDU_BACHELOR == <<1073,1072,1082,1072,1083,1072,1074,1088,1080,1072,1090>>

\* "магистратура"
EDU_MASTER == <<1084,1072,1075,1080,1089,1090,1088,1072,1090,1091,1088,1072>>

\* "аспирантура"
EDU_DOCTORAL == <<1072,1089,1087,1080,1088,1072,1085,1090,1091,1088,1072>>

---------------------------------------------------------------------------
(* _analyze_background *)

\* the keys of the items of `table`, in order
Keys(table) == [n \in 1..Len(table) |-> table[n].key]

\* [key for key, keywords in table.items() if any(k in s for k in keywords)]
MatchingKeys(table, s) ==
    LET Hit(item) == AnyIn(item.keywords, s)
    IN  Keys(SelectSeq(table, Hit))

\* Mutant of ProgrammingSkills: the negation is scoped to the keyword it
\* stands directly in front of.
ProgrammingSkillsScopedNegation(s) ==
    LET Negated(keyword) ==
            \E n \in 1..Len(negation_phrases) :
                Contains(negation_phrases[n] \o <<32>> \o keyword, s)
        Hit(item) ==
            \E n \in 1..Len(item.keywords) :
                Contains(item.keywords[n], s) /\ ~Negated(item.keywords[n])
    IN  Keys(SelectSeq(programming_keywords, Hit))

\* lines 516-523: a programming skill is appended when one of its keywords
\* occurs and no negation phrase occurs anywhere in the text
ProgrammingSkills(s) ==
    LET Hit(item) == AnyIn(item.keywords, s) /\ ~AnyIn(negation_phrases, s)
    IN  Keys(SelectSeq(programming_keywords, Hit))

\* lines 636-638: the research keywords that occur, in list order
ResearchInterests(s) ==
    LET Hit(keyword) == Contains(keyword, s)
    IN  SelectSeq(research_keywords, Hit)

\* Mutant of EducationLevel: the default is the level of the programme applied for.
EducationLevelDefaultMaster(s) ==
    LET hits == MatchingKeys(education_keywords, s)
    IN  IF hits = <<>> THEN EDU_MASTER ELSE Head(hits)

\* lines 654-658: the first level whose keywords occur, else the default
EducationLevel(s) ==
    LET hits == MatchingKeys(education_keywords, s)
    IN  IF hits = <<>> THEN EDU_BACHELOR ELSE Head(hits)

\* lines 661-683
WorkExperience(s) ==
    IF AnyIn(experience_keywords, s) THEN HAS_EXPERIENCE ELSE NO_EXPERIENCE

\* Mutant of TimeAvailability: the part-time words are tested first.
TimeAvailabilityPartFirst(s) ==
    IF AnyIn(part_time_keywords, s) THEN TIME_PART
    ELSE IF AnyIn(full_time_keywords, s) THEN TIME_FULL
    ELSE TIME_STANDARD

\* lines 715-719
TimeAvailability(s) ==
    IF AnyIn(full_time_keywords, s) THEN TIME_FULL
    ELSE IF AnyIn(part_time_keywords, s) THEN TIME_PART
    ELSE TIME_STANDARD

_analyze_background(text) ==
    LET background_lower == Lower(text)
    IN  [ programming_skills   |-> ProgrammingSkills(background_lower),
          math_skills          |-> MatchingKeys(math_keywords, background_lower),
          business_skills      |-> MatchingKeys(business_keywords, background_lower),
          research_interests   |-> ResearchInterests(background_lower),
          work_experience      |-> WorkExperience(background_lower),
          education_level      |-> EducationLevel(background_lower),
          career_goals         |-> MatchingKeys(career_keywords, background_lower),
          learning_preferences |-> MatchingKeys(learning_keywords, background_lower),
          time_availability    |-> TimeAvailability(background_lower) ]

---------------------------------------------------------------------------
(* Class constants (tenths) and _build_skill_mapping *)

HIGH_SCORE_THRESHOLD == 70

MEDIUM_SCORE_THRESHOLD == 40

LOW_SCORE_THRESHOLD == 20

\* min(score, 10.0) and min(compatibility_score, 10.0)
SCORE_CAP == 100

FIRST_SEMESTER == 1

SECOND_SEMESTER == 2

THIRD_SEMESTER == 3

FOURTH_SEMESTER == 4

\* the dict literal of _build_skill_mapping, in insertion order
_build_skill_mapping ==
    \* "python"
    << [key |-> <<112,121,116,104,111,110>>, weight |-> 20,
        \* "программирование"  "python"  "код"  "разработка"
        courses |-> << <<1087,1088,1086,1075,1088,1072,1084,1084,1080,1088,1086,1074,1072,1085,1080,1077>>, <<112,121,116,104,111,110>>, <<1082,1086,1076>>, <<1088,1072,1079,1088,1072,1073,1086,1090,1082,1072>> >>,
        \* "ML Engineer"  "Data Scientist"  "AI Developer"
        career_paths |-> << <<77,76,32,69,110,103,105,110,101,101,114>>, <<68,97,116,97,32,83,99,105,101,110,116,105,115,116>>, <<65,73,32,68,101,118,101,108,111,112,101,114>> >>],
       \* "java"
       [key |-> <<106,97,118,97>>, weight |-> 15,
        \* "java"  "джава"  "программирование"  "код"
        courses |-> << <<106,97,118,97>>, <<1076,1078,1072,1074,1072>>, <<1087,1088,1086,1075,1088,1072,1084,1084,1080,1088,1086,1074,1072,1085,1080,1077>>, <<1082,1086,1076>> >>,
        \* "Software Engineer"  "Backend Developer"
        career_paths |-> << <<83,111,102,116,119,97,114,101,32,69,110,103,105,110,101,101,114>>, <<66,97,99,107,101,110,100,32,68,101,118,101,108,111,112,101,114>> >>],
       \* "javascript"
       [key |-> <<106,97,118,97,115,99,114,105,112,116>>, weight |-> 15,
        \* "javascript"  "js"  "веб"  "web"  "frontend"
        courses |-> << <<106,97,118,97,115,99,114,105,112,116>>, <<106,115>>, <<1074,1077,1073>>, <<119,101,98>>, <<102,114,111,110,116,101,110,100>> >>,
        \* "Frontend Developer"  "Full-Stack Developer"
        career_paths |-> << <<70,114,111,110,116,101,110,100,32,68,101,118,101,108,111,112,101,114>>, <<70,117,108,108,45,83,116,97,99,107,32,68,101,118,101,108,111,112,101,114>> >>],
       \* "mathematics"
       [key |-> <<109,97,116,104,101,109,97,116,105,99,115>>, weight |-> 20,
        \* "математика"  "алгебра"  "геометрия"  "анализ"
        courses |-> << <<1084,1072,1090,1077,1084,1072,1090,1080,1082,1072>>, <<1072,1083,1075,1077,1073,1088,1072>>, <<1075,1077,1086,1084,1077,1090,1088,1080,1103>>, <<1072,1085,1072,1083,1080,1079>> >>,
        \* "ML Engineer"  "Data Scientist"  "AI Researcher"
        career_paths |-> << <<77,76,32,69,110,103,105,110,101,101,114>>, <<68,97,116,97,32,83,99,105,101,110,116,105,115,116>>, <<65,73,32,82,101,115,101,97,114,99,104,101,114>> >>],
       \* "statistics"
       [key |-> <<115,116,97,116,105,115,116,105,99,115>>, weight |-> 25,
        \* "статистика"  "вероятность"  "анализ данных"
        courses |-> << <<1089,1090,1072,1090,1080,1089,1090,1080,1082,1072>>, <<1074,1077,1088,1086,1103,1090,1085,1086,1089,1090,1100>>, <<1072,1085,1072,1083,1080,1079,32,1076,1072,1085,1085,1099,1093>> >>,
        \* "Data Scientist"  "Data Analyst"  "ML Engineer"
        career_paths |-> << <<68,97,116,97,32,83,99,105,101,110,116,105,115,116>>, <<68,97,116,97,32,65,110,97,108,121,115,116>>, <<77,76,32,69,110,103,105,110,101,101,114>> >>],
       \* "linear_algebra"
       [key |-> <<108,105,110,101,97,114,95,97,108,103,101,98,114,97>>, weight |-> 20,
        \* "линейная алгебра"  "матрицы"  "векторы"
        courses |-> << <<1083,1080,1085,1077,1081,1085,1072,1103,32,1072,1083,1075,1077,1073,1088,1072>>, <<1084,1072,1090,1088,1080,1094,1099>>, <<1074,1077,1082,1090,1086,1088,1099>> >>,
        \* "ML Engineer"  "Computer Vision Engineer"  "AI Researcher"
        career_paths |-> << <<77,76,32,69,110,103,105,110,101,101,114>>, <<67,111,109,112,117,116,101,114,32,86,105,115,105,111,110,32,69,110,103,105,110,101,101,114>>, <<65,73,32,82,101,115,101,97,114,99,104,101,114>> >>],
       \* "business"
       [key |-> <<98,117,115,105,110,101,115,115>>, weight |-> 15,
        \* "бизнес"  "менеджмент"  "управление"  "стратегия"
        courses |-> << <<1073,1080,1079,1085,1077,1089>>, <<1084,1077,1085,1077,1076,1078,1084,1077,1085,1090>>, <<1091,1087,1088,1072,1074,1083,1077,1085,1080,1077>>, <<1089,1090,1088,1072,1090,1077,1075,1080,1103>> >>,
        \* "Product Manager"  "AI Product Manager"  "Business Analyst"
        career_paths |-> << <<80,114,111,100,117,99,116,32,77,97,110,97,103,101,114>>, <<65,73,32,80,114,111,100,117,99,116,32,77,97,110,97,103,101,114>>, <<66,117,115,105,110,101,115,115,32,65,110,97,108,121,115,116>> >>],
       \* "product_management"
       [key |-> <<112,114,111,100,117,99,116,95,109,97,110,97,103,101,109,101,110,116>>, weight |-> 20,
        \* "продукт"  "product"  "управление продуктами"
        courses |-> << <<1087,1088,1086,1076,1091,1082,1090>>, <<112,114,111,100,117,99,116>>, <<1091,1087,1088,1072,1074,1083,1077,1085,1080,1077,32,1087,1088,1086,1076,1091,1082,1090,1072,1084,1080>> >>,
        \* "Product Manager"  "AI Product Manager"
        career_paths |-> << <<80,114,111,100,117,99,116,32,77,97,110,97,103,101,114>>, <<65,73,32,80,114,111,100,117,99,116,32,77,97,110,97,103,101,114>> >>],
       \* "research"
       [key |-> <<114,101,115,101,97,114,99,104>>, weight |-> 15,
        \* "исследование"  "наука"  "анализ"  "публикация"
        courses |-> << <<1080,1089,1089,1083,1077,1076,1086,1074,1072,1085,1080,1077>>, <<1085,1072,1091,1082,1072>>, <<1072,1085,1072,1083,1080,1079>>, <<1087,1091,1073,1083,1080,1082,1072,1094,1080,1103>> >>,
        \* "AI Researcher"  "Data Scientist"  "ML Engineer"
        career_paths |-> << <<65,73,32,82,101,115,101,97,114,99,104,101,114>>, <<68,97,116,97,32,83,99,105,101,110,116,105,115,116>>, <<77,76,32,69,110,103,105,110,101,101,114>> >>],
       \* "general"
       [key |-> <<103,101,110,101,114,97,108>>, weight |-> 15,
        \* "техническое"  "технический"  "инженер"  "инженерный"
        courses |-> << <<1090,1077,1093,1085,1080,1095,1077,1089,1082,1086,1077>>, <<1090,1077,1093,1085,1080,1095,1077,1089,1082,1080,1081>>, <<1080,1085,1078,1077,1085,1077,1088>>, <<1080,1085,1078,1077,1085,1077,1088,1085,1099,1081>>,
                       \* "разработка"  "разработчик"  "программирование"  "код"
                       <<1088,1072,1079,1088,1072,1073,1086,1090,1082,1072>>, <<1088,1072,1079,1088,1072,1073,1086,1090,1095,1080,1082>>, <<1087,1088,1086,1075,1088,1072,1084,1084,1080,1088,1086,1074,1072,1085,1080,1077>>, <<1082,1086,1076>> >>,
        \* "Software Engineer"  "ML Engineer"  "AI Developer"
        career_paths |-> << <<83,111,102,116,119,97,114,101,32,69,110,103,105,110,101,101,114>>, <<77,76,32,69,110,103,105,110,101,101,114>>, <<65,73,32,68,101,118,101,108,111,112,101,114>> >>],
       \* "c++"
       [key |-> <<99,43,43>>, weight |-> 15,
        \* "c++"  "cpp"  "си плюс плюс"  "программирование"
        courses |-> << <<99,43,43>>, <<99,112,112>>, <<1089,1080,32,1087,1083,1102,1089,32,1087,1083,1102,1089>>, <<1087,1088,1086,1075,1088,1072,1084,1084,1080,1088,1086,1074,1072,1085,1080,1077>>,
                       \* "код"  "разработка"
                       <<1082,1086,1076>>, <<1088,1072,1079,1088,1072,1073,1086,1090,1082,1072>> >>,
        \* "Software Engineer"  "Backend Developer"  "ML Engineer"
        career_paths |-> << <<83,111,102,116,119,97,114,101,32,69,110,103,105,110,101,101,114>>, <<66,97,99,107,101,110,100,32,68,101,118,101,108,111,112,101,114>>, <<77,76,32,69,110,103,105,110,101,101,114>> >>],
       \* "web"
       [key |-> <<119,101,98>>, weight |-> 15,
        \* "веб"  "web"  "html"  "css"  "frontend"  "backend"
        courses |-> << <<1074,1077,1073>>, <<119,101,98>>, <<104,116,109,108>>, <<99,115,115>>, <<102,114,111,110,116,101,110,100>>, <<98,97,99,107,101,110,100>>,
                       \* "fullstack"
                       <<102,117,108,108,115,116,97,99,107>> >>,
        \* "Frontend Developer"  "Full-Stack Developer"  "Web Developer"
        career_paths |-> << <<70,114,111,110,116,101,110,100,32,68,101,118,101,108,111,112,101,114>>, <<70,117,108,108,45,83,116,97,99,107,32,68,101,118,101,108,111,112,101,114>>, <<87,101,98,32,68,101,118,101,108,111,112,101,114>> >>],
       \* "mobile"
       [key |-> <<109,111,98,105,108,101>>, weight |-> 15,
        \* "мобильная разработка"  "android"  "ios"  "react native"
        courses |-> << <<1084,1086,1073,1080,1083,1100,1085,1072,1103,32,1088,1072,1079,1088,1072,1073,1086,1090,1082,1072>>, <<97,110,100,114,111,105,100>>, <<105,111,115>>, <<114,101,97,99,116,32,110,97,116,105,118,101>>,
                       \* "flutter"
                       <<102,108,117,116,116,101,114>> >>,
        \* "Mobile Developer"  "App Developer"
        career_paths |-> << <<77,111,98,105,108,101,32,68,101,118,101,108,111,112,101,114>>, <<65,112,112,32,68,101,118,101,108,111,112,101,114>> >>],
       \* "blockchain"
       [key |-> <<98,108,111,99,107,99,104,97,105,110>>, weight |-> 15,
        \* "блокчейн"  "blockchain"  "криптовалюта"  "смарт-контракт"
        courses |-> << <<1073,1083,1086,1082,1095,1077,1081,1085>>, <<98,108,111,99,107,99,104,97,105,110>>, <<1082,1088,1080,1087,1090,1086,1074,1072,1083,1102,1090,1072>>, <<1089,1084,1072,1088,1090,45,1082,1086,1085,1090,1088,1072,1082,1090>>,
                       \* "defi"
                       <<100,101,102,105>> >>,
        \* "Blockchain Developer"  "Smart Contract Developer"
        career_paths |-> << <<66,108,111,99,107,99,104,97,105,110,32,68,101,118,101,108,111,112,101,114>>, <<83,109,97,114,116,32,67,111,110,116,114,97,99,116,32,68,101,118,101,108,111,112,101,114>> >>],
       \* "ai"
       [key |-> <<97,105>>, weight |-> 20,
        \* "искусственный интеллект"  "ai"  "машинное обучение"
        courses |-> << <<1080,1089,1082,1091,1089,1089,1090,1074,1077,1085,1085,1099,1081,32,1080,1085,1090,1077,1083,1083,1077,1082,1090>>, <<97,105>>, <<1084,1072,1096,1080,1085,1085,1086,1077,32,1086,1073,1091,1095,1077,1085,1080,1077>>,
                       \* "нейронные сети"  "data science"
                       <<1085,1077,1081,1088,1086,1085,1085,1099,1077,32,1089,1077,1090,1080>>, <<100,97,116,97,32,115,99,105,101,110,99,101>> >>,
        \* "ML Engineer"  "AI Developer"  "Data Scientist"
        career_paths |-> << <<77,76,32,69,110,103,105,110,101,101,114>>, <<65,73,32,68,101,118,101,108,111,112,101,114>>, <<68,97,116,97,32,83,99,105,101,110,116,105,115,116>> >>],
       \* "data"
       [key |-> <<100,97,116,97>>, weight |-> 20,
        \* "данные"  "data"  "анализ данных"  "big data"
        courses |-> << <<1076,1072,1085,1085,1099,1077>>, <<100,97,116,97>>, <<1072,1085,1072,1083,1080,1079,32,1076,1072,1085,1085,1099,1093>>, <<98,105,103,32,100,97,116,97>>,
                       \* "база данных"
                       <<1073,1072,1079,1072,32,1076,1072,1085,1085,1099,1093>> >>,
        \* "Data Scientist"  "Data Engineer"  "Data Analyst"
        career_paths |-> << <<68,97,116,97,32,83,99,105,101,110,116,105,115,116>>, <<68,97,116,97,32,69,110,103,105,110,101,101,114>>, <<68,97,116,97,32,65,110,97,108,121,115,116>> >>],
       \* "devops"
       [key |-> <<100,101,118,111,112,115>>, weight |-> 15,
        \* "devops"  "инфраструктура"  "docker"  "kubernetes"
        courses |-> << <<100,101,118,111,112,115>>, <<1080,1085,1092,1088,1072,1089,1090,1088,1091,1082,1090,1091,1088,1072>>, <<100,111,99,107,101,114>>, <<107,117,98,101,114,110,101,116,101,115>>,
                       \* "ci/cd"
                       <<99,105,47,99,100>> >>,
        \* "DevOps Engineer"  "Infrastructure Engineer"
        career_paths |-> << <<68,101,118,79,112,115,32,69,110,103,105,110,101,101,114>>, <<73,110,102,114,97,115,116,114,117,99,116,117,114,101,32,69,110,103,105,110,101,101,114>> >>] >>

---------------------------------------------------------------------------
(* Keyword lists of the scorer *)

\* lines 760-777
technical_course_keywords ==
    \* "программирование"  "код"  "разработка"  "алгоритм"  "python"
    << <<1087,1088,1086,1075,1088,1072,1084,1084,1080,1088,1086,1074,1072,1085,1080,1077>>, <<1082,1086,1076>>, <<1088,1072,1079,1088,1072,1073,1086,1090,1082,1072>>, <<1072,1083,1075,1086,1088,1080,1090,1084>>, <<112,121,116,104,111,110>>,
       \* "java"  "javascript"  "ai"  "data"  "blockchain"
       <<106,97,118,97>>, <<106,97,118,97,115,99,114,105,112,116>>, <<97,105>>, <<100,97,116,97>>, <<98,108,111,99,107,99,104,97,105,110>>,
       \* "машинное обучение"  "глубокое обучение"  "нейронные сети"
       <<1084,1072,1096,1080,1085,1085,1086,1077,32,1086,1073,1091,1095,1077,1085,1080,1077>>, <<1075,1083,1091,1073,1086,1082,1086,1077,32,1086,1073,1091,1095,1077,1085,1080,1077>>, <<1085,1077,1081,1088,1086,1085,1085,1099,1077,32,1089,1077,1090,1080>>,
       \* "обработка"  "зрение"  "анализ"
       <<1086,1073,1088,1072,1073,1086,1090,1082,1072>>, <<1079,1088,1077,1085,1080,1077>>, <<1072,1085,1072,1083,1080,1079>> >>

\* lines 799-812
math_course_keywords ==
    \* "математика"  "статистика"  "анализ"  "алгоритм"  "алгебра"
    << <<1084,1072,1090,1077,1084,1072,1090,1080,1082,1072>>, <<1089,1090,1072,1090,1080,1089,1090,1080,1082,1072>>, <<1072,1085,1072,1083,1080,1079>>, <<1072,1083,1075,1086,1088,1080,1090,1084>>, <<1072,1083,1075,1077,1073,1088,1072>>,
       \* "геометрия"  "машинное обучение"  "глубокое обучение"
       <<1075,1077,1086,1084,1077,1090,1088,1080,1103>>, <<1084,1072,1096,1080,1085,1085,1086,1077,32,1086,1073,1091,1095,1077,1085,1080,1077>>, <<1075,1083,1091,1073,1086,1082,1086,1077,32,1086,1073,1091,1095,1077,1085,1080,1077>>,
       \* "нейронные сети"  "обработка"  "зрение"  "вероятности"
       <<1085,1077,1081,1088,1086,1085,1085,1099,1077,32,1089,1077,1090,1080>>, <<1086,1073,1088,1072,1073,1086,1090,1082,1072>>, <<1079,1088,1077,1085,1080,1077>>, <<1074,1077,1088,1086,1103,1090,1085,1086,1089,1090,1080>> >>

\* lines 834-841
business_course_keywords ==
    \* "менеджмент"  "бизнес"  "продукт"  "проект"  "управление"
    << <<1084,1077,1085,1077,1076,1078,1084,1077,1085,1090>>, <<1073,1080,1079,1085,1077,1089>>, <<1087,1088,1086,1076,1091,1082,1090>>, <<1087,1088,1086,1077,1082,1090>>, <<1091,1087,1088,1072,1074,1083,1077,1085,1080,1077>>,
       \* "стратегия"
       <<1089,1090,1088,1072,1090,1077,1075,1080,1103>> >>

\* line 861
\* "исследование"  "наука"  "анализ"
research_course_keywords == << <<1080,1089,1089,1083,1077,1076,1086,1074,1072,1085,1080,1077>>, <<1085,1072,1091,1082,1072>>, <<1072,1085,1072,1083,1080,1079>> >>

\* line 868
\* "практика"  "проект"  "реальный"
practice_course_keywords == << <<1087,1088,1072,1082,1090,1080,1082,1072>>, <<1087,1088,1086,1077,1082,1090>>, <<1088,1077,1072,1083,1100,1085,1099,1081>> >>

\* line 875
\* "продвинутый"  "углубленный"  "исследование"
advanced_course_keywords == << <<1087,1088,1086,1076,1074,1080,1085,1091,1090,1099,1081>>, <<1091,1075,1083,1091,1073,1083,1077,1085,1085,1099,1081>>, <<1080,1089,1089,1083,1077,1076,1086,1074,1072,1085,1080,1077>> >>

\* line 918
\* "введение"  "основы"  "базовые"
introductory_keywords == << <<1074,1074,1077,1076,1077,1085,1080,1077>>, <<1086,1089,1085,1086,1074,1099>>, <<1073,1072,1079,1086,1074,1099,1077>> >>

\* line 921
\* "продвинутый"  "углубленный"  "специальные"
hard_keywords == << <<1087,1088,1086,1076,1074,1080,1085,1091,1090,1099,1081>>, <<1091,1075,1083,1091,1073,1083,1077,1085,1085,1099,1081>>, <<1089,1087,1077,1094,1080,1072,1083,1100,1085,1099,1077>> >>

\* line 929
\* "программирование"  "код"  "разработка"
programming_difficulty_keywords == << <<1087,1088,1086,1075,1088,1072,1084,1084,1080,1088,1086,1074,1072,1085,1080,1077>>, <<1082,1086,1076>>, <<1088,1072,1079,1088,1072,1073,1086,1090,1082,1072>> >>

\* line 934
\* "математика"  "алгебра"  "статистика"
math_difficulty_keywords == << <<1084,1072,1090,1077,1084,1072,1090,1080,1082,1072>>, <<1072,1083,1075,1077,1073,1088,1072>>, <<1089,1090,1072,1090,1080,1089,1090,1080,1082,1072>> >>

\* line 939
\* "бизнес"  "менеджмент"  "управление"
business_difficulty_keywords == << <<1073,1080,1079,1085,1077,1089>>, <<1084,1077,1085,1077,1076,1078,1084,1077,1085,1090>>, <<1091,1087,1088,1072,1074,1083,1077,1085,1080,1077>> >>

---------------------------------------------------------------------------
(* _evaluate_course_intelligently and its helpers *)

\* skill in mapping
InMapping(mapping, skill) == \E n \in 1..Len(mapping) : mapping[n].key = skill

\* mapping[skill]
Lookup(mapping, skill) ==
    mapping[CHOOSE n \in 1..Len(mapping) : mapping[n].key = skill]

\* Mutant of SkillOverlap: the loop has no `break`, every skill of the
\* category that passes one of the two tests adds its amount.
RECURSIVE SkillOverlapNoBreak(_, _, _, _)
SkillOverlapNoBreak(mapping, skills, generic_keywords, course_lower) ==
    IF skills = <<>> THEN <<>>
    ELSE LET skill == Head(skills)
             rest == SkillOverlapNoBreak(mapping, Tail(skills), generic_keywords,
                                         course_lower)
             amount == IF /\ InMapping(mapping, skill)
                          /\ AnyIn(Lookup(mapping, skill).courses, course_lower)
                       THEN Lookup(mapping, skill).weight
                       ELSE IF AnyIn(generic_keywords, course_lower) THEN 20
                       ELSE 0
         IN  IF amount = 0 THEN rest
             ELSE IF rest = <<>> THEN <<amount, skill>>
             ELSE <<amount + rest[1], skill>>

\* One of the three loops of lines 746-846 over the skills of one category:
\* the first skill for which either test succeeds ends the loop.  The result
\* is <<>> when the loop adds nothing, else <<amount, skill>>.
RECURSIVE SkillOverlap(_, _, _, _)
SkillOverlap(mapping, skills, generic_keywords, course_lower) ==
    IF skills = <<>> THEN <<>>
    ELSE LET skill == Head(skills)
         IN  IF /\ InMapping(mapping, skill)
                /\ AnyIn(Lookup(mapping, skill).courses, course_lower)
             THEN <<Lookup(mapping, skill).weight, skill>>
             ELSE IF AnyIn(generic_keywords, course_lower)
             THEN <<20, skill>>
             ELSE SkillOverlap(mapping, Tail(skills), generic_keywords, course_lower)

\* lines 851-857: whether the inner loop over the skill map finds an entry for
\* this goal (it then adds 1.5 once and breaks)
GoalMatches(mapping, goal, course_lower) ==
    \E n \in 1..Len(mapping) :
        /\ InList(Lower(goal), mapping[n].career_paths)
        /\ AnyIn(mapping[n].courses, course_lower)

\* the goals of lines 849-857 that add 1.5, in order
MatchedGoals(mapping, goals, course_lower) ==
    LET Hit(goal) == GoalMatches(mapping, goal, course_lower)
    IN  SelectSeq(goals, Hit)

\* Mutant of BaseDifficulty: a course that is not introductory counts as hard.
BaseDifficultyDefaultHard(course_lower) ==
    IF AnyIn(introductory_keywords, course_lower) THEN 10
    ELSE IF AnyIn(hard_keywords, course_lower) THEN 30
    ELSE 30

\* lines 917-925
BaseDifficulty(course_lower) ==
    IF AnyIn(introductory_keywords, course_lower) THEN 10
    ELSE IF AnyIn(hard_keywords, course_lower) THEN 30
    ELSE 20

\* Mutant of _assess_course_difficulty: the three tests are one if/elif
\* chain, at most one category lowers the difficulty.
AssessDifficultyOneReduction(c, p) ==
    LET course_lower == Lower(c.name)
        Lowers(skills, keywords) == skills # <<>> /\ AnyIn(keywords, course_lower)
    IN  BaseDifficulty(course_lower)
        - (IF \/ Lowers(p.programming_skills, programming_difficulty_keywords)
              \/ Lowers(p.math_skills, math_difficulty_keywords)
              \/ Lowers(p.business_skills, business_difficulty_keywords)
           THEN 10 ELSE 0)

\* Mutant of _assess_course_difficulty: a category lowers the difficulty
\* whether or not the profile has a skill in it.
AssessDifficultyWhateverSkills(c, p) ==
    LET course_lower == Lower(c.name)
        minus(keywords) == IF AnyIn(keywords, course_lower) THEN 10 ELSE 0
    IN  BaseDifficulty(course_lower)
        - minus(programming_difficulty_keywords)
        - minus(math_difficulty_keywords)
        - minus(business_difficulty_keywords)

\* lines 912-943
_assess_course_difficulty(c, p) ==
    LET course_lower == Lower(c.name)
        base_difficulty == BaseDifficulty(course_lower)
        minus(skills, keywords) ==
            IF skills # <<>> /\ AnyIn(keywords, course_lower) THEN 10 ELSE 0
        difficulty_score ==
            0 - minus(p.programming_skills, programming_difficulty_keywords)
              - minus(p.math_skills, math_difficulty_keywords)
              - minus(p.business_skills, business_difficulty_keywords)
    IN  base_difficulty + difficulty_score

_determine_learning_path(c, p, prog) ==
    IF c.semester = FIRST_SEMESTER THEN "first (semester 1)"
    ELSE IF c.semester = SECOND_SEMESTER THEN "after the basic courses (semester 2)"
    ELSE IF c.semester = THIRD_SEMESTER THEN "after the main courses (semester 3)"
    ELSE IF c.semester = FOURTH_SEMESTER THEN "in the final semester (semester 4)"
    ELSE "any order"

\* The sentences _generate_concrete_recommendation_reason returns are modelled
\* by [rule, arg]: `rule` names the return statement, `arg` is the skill an
\* f-string interpolates (<<>> when the sentence is fixed).
Sentence(rule) == [rule |-> rule, arg |-> <<>>]

\* lines 1096-1117: the loop over the career goals; "none" when no goal returns
RECURSIVE GoalReason(_, _)
GoalReason(goals, course_lower) ==
    IF goals = <<>> THEN "none"
    ELSE LET goal_lower == Lower(Head(goals))
             \* "ml engineer"
             engineer == \/ Contains(<<109,108,32,101,110,103,105,110,101,101,114>>, goal_lower)
                         \* "ai developer"
                         \/ Contains(<<97,105,32,100,101,118,101,108,111,112,101,114>>, goal_lower)
             \* "data scientist"
             scientist == Contains(<<100,97,116,97,32,115,99,105,101,110,116,105,115,116>>, goal_lower)
             \* "product manager"
             manager == Contains(<<112,114,111,100,117,99,116,32,109,97,110,97,103,101,114>>, goal_lower)
             \* "машинное обучение"
             ml_or_nn == \/ Contains(<<1084,1072,1096,1080,1085,1085,1086,1077,32,1086,1073,1091,1095,1077,1085,1080,1077>>, course_lower)
                         \* "нейронные сети"
                         \/ Contains(<<1085,1077,1081,1088,1086,1085,1085,1099,1077,32,1089,1077,1090,1080>>, course_lower)
         IN  IF engineer /\ ml_or_nn THEN "goal: required course for an ML Engineer"
             \* "алгоритм"
             ELSE IF engineer /\ Contains(<<1072,1083,1075,1086,1088,1080,1090,1084>>, course_lower)
                  THEN "goal: algorithms matter for an ML Engineer"
             \* "статистика"
             ELSE IF scientist /\ (\/ Contains(<<1089,1090,1072,1090,1080,1089,1090,1080,1082,1072>>, course_lower)
                                   \* "анализ"
                                   \/ Contains(<<1072,1085,1072,1083,1080,1079>>, course_lower))
                  THEN "goal: key course for a Data Scientist"
             \* "машинное обучение"
             ELSE IF scientist /\ Contains(<<1084,1072,1096,1080,1085,1085,1086,1077,32,1086,1073,1091,1095,1077,1085,1080,1077>>, course_lower)
                  THEN "goal: required for a Data Scientist"
             \* "продукт"
             ELSE IF manager /\ (\/ Contains(<<1087,1088,1086,1076,1091,1082,1090>>, course_lower)
                                 \* "менеджмент"
                                 \/ Contains(<<1084,1077,1085,1077,1076,1078,1084,1077,1085,1090>>, course_lower))
                  THEN "goal: ideal for a Product Manager"
             \* "бизнес"
             ELSE IF manager /\ Contains(<<1073,1080,1079,1085,1077,1089>>, course_lower)
                  THEN "goal: business side matters for a PM"
             ELSE GoalReason(Tail(goals), course_lower)

\* lines 1120-1148: the sentences chosen after the skill-specific rules
ReasonTail(course_lower, p, compatibility_score) ==
    LET has_exp == p.work_experience = HAS_EXPERIENCE
    \* "практика"
    IN  IF has_exp /\ (\/ Contains(<<1087,1088,1072,1082,1090,1080,1082,1072>>, course_lower)
                       \* "проект"
                       \/ Contains(<<1087,1088,1086,1077,1082,1090>>, course_lower))
        THEN Sentence("experience: helps with the practical tasks")
        \* "реальный"
        ELSE IF has_exp /\ Contains(<<1088,1077,1072,1083,1100,1085,1099,1081>>, course_lower)
        THEN Sentence("experience: helps with real applications")
        ELSE IF /\ p.education_level = EDU_MASTER
                \* "продвинутый"
                /\ (\/ Contains(<<1087,1088,1086,1076,1074,1080,1085,1091,1090,1099,1081>>, course_lower)
                    \* "углубленный"
                    \/ Contains(<<1091,1075,1083,1091,1073,1083,1077,1085,1085,1099,1081>>, course_lower))
        THEN Sentence("education: fits your level")
        ELSE IF compatibility_score >= MEDIUM_SCORE_THRESHOLD
        THEN IF p.programming_skills # <<>>
             THEN [rule |-> "generic: excellent choice for a developer in",
                   arg |-> p.programming_skills[1]]
             ELSE IF p.math_skills # <<>>
             THEN [rule |-> "generic: excellent choice, your knowledge of",
                   arg |-> p.math_skills[1]]
             ELSE Sentence("generic: excellent choice")
        ELSE IF compatibility_score >= LOW_SCORE_THRESHOLD
        THEN IF has_exp
             THEN Sentence("generic: good choice, your experience helps")
             ELSE Sentence("generic: good choice, extra preparation advised")
        ELSE Sentence("generic: may be hard, a chance to grow")

_generate_concrete_recommendation_reason(c, p, compatibility_score) ==
    LET course_lower == Lower(c.name)
        \* "python"
        python == InList(<<112,121,116,104,111,110>>, p.programming_skills)
        \* "java"
        java == InList(<<106,97,118,97>>, p.programming_skills)
        \* "математика"
        maths == InList(<<1084,1072,1090,1077,1084,1072,1090,1080,1082,1072>>, p.math_skills)
        \* "менеджмент"
        management == InList(<<1084,1077,1085,1077,1076,1078,1084,1077,1085,1090>>, p.business_skills)
        \* "машинное обучение"
        ml == Contains(<<1084,1072,1096,1080,1085,1085,1086,1077,32,1086,1073,1091,1095,1077,1085,1080,1077>>, course_lower)
        \* "нейронные сети"
        nn == Contains(<<1085,1077,1081,1088,1086,1085,1085,1099,1077,32,1089,1077,1090,1080>>, course_lower)
        \* "алгоритм"
        algorithm == Contains(<<1072,1083,1075,1086,1088,1080,1090,1084>>, course_lower)
        \* "обработка"
        processing == \/ Contains(<<1086,1073,1088,1072,1073,1086,1090,1082,1072>>, course_lower)
                      \* "зрение"
                      \/ Contains(<<1079,1088,1077,1085,1080,1077>>, course_lower)
        goal_reason == GoalReason(p.career_goals, course_lower)
    IN  IF python /\ (ml \/ nn) THEN Sentence("python: practical ML skills")
        ELSE IF python /\ processing THEN Sentence("python: apply your skills in AI")
        ELSE IF python /\ algorithm THEN Sentence("python: algorithms and data structures")
        ELSE IF java /\ ml THEN Sentence("java: enterprise ML")
        ELSE IF java /\ algorithm THEN Sentence("java: implement algorithms")
        ELSE IF maths /\ (ml \/ nn) THEN Sentence("maths: ideal base for ML algorithms")
        \* "статистика"
        ELSE IF maths /\ Contains(<<1089,1090,1072,1090,1080,1089,1090,1080,1082,1072>>, course_lower)
             THEN Sentence("maths: understand statistical methods")
        \* "оптимизация"
        ELSE IF maths /\ Contains(<<1086,1087,1090,1080,1084,1080,1079,1072,1094,1080,1103>>, course_lower)
             THEN Sentence("maths: advantage in optimisation")
        \* "продукт"
        ELSE IF management /\ (\/ Contains(<<1087,1088,1086,1076,1091,1082,1090>>, course_lower)
                               \* "проект"
                               \/ Contains(<<1087,1088,1086,1077,1082,1090>>, course_lower))
             THEN Sentence("management: manage AI projects")
        \* "бизнес"
        ELSE IF management /\ Contains(<<1073,1080,1079,1085,1077,1089>>, course_lower)
             THEN Sentence("management: apply AI in real projects")
        ELSE IF goal_reason # "none" THEN Sentence(goal_reason)
        ELSE ReasonTail(course_lower, p, compatibility_score)

\* the entries of the local list `reasons`
SkillReason(skill) == [rule |-> "matches your skills in", arg |-> skill]

GoalReasons(goals) ==
    [n \in 1..Len(goals) |-> [rule |-> "matches your career goal", arg |-> goals[n]]]

Min(a, b) == IF a <= b THEN a ELSE b

\* Mutant of Priority: the thresholds are exclusive.
PriorityExclusive(score) ==
    IF score > HIGH_SCORE_THRESHOLD THEN "high"
    ELSE IF score > MEDIUM_SCORE_THRESHOLD THEN "medium"
    ELSE "low"

\* lines 884-890
Priority(score) ==
    IF score >= HIGH_SCORE_THRESHOLD THEN "high"
    ELSE IF score >= MEDIUM_SCORE_THRESHOLD THEN "medium"
    ELSE "low"

\* The locals of _evaluate_course_intelligently at its return statement
\* (lines 739-901); `score` and `compatibility_score` are the values before
\* the min(..., 10.0) of the return statement.
EvaluationFrame(mapping, c, p, prog) ==
    LET course_lower == Lower(c.name)
        prog_term == SkillOverlap(mapping, p.programming_skills,
                                  technical_course_keywords, course_lower)
        math_term == SkillOverlap(mapping, p.math_skills,
                                  math_course_keywords, course_lower)
        business_term == SkillOverlap(mapping, p.business_skills,
                                      business_course_keywords, course_lower)
        Amount(term) == IF term = <<>> THEN 0 ELSE term[1]
        Reasons(term) == IF term = <<>> THEN <<>> ELSE <<SkillReason(term[2])>>
        compatibility_score == Amount(prog_term) + Amount(math_term) + Amount(business_term)
        goals == MatchedGoals(mapping, p.career_goals, course_lower)
        research == /\ p.research_interests # <<>>
                    /\ AnyIn(research_course_keywords, course_lower)
        experience == /\ p.work_experience = HAS_EXPERIENCE
                      /\ AnyIn(practice_course_keywords, course_lower)
        education == /\ p.education_level \in {EDU_MASTER, EDU_DOCTORAL}
                     /\ AnyIn(advanced_course_keywords, course_lower)
        difficulty_bonus == _assess_course_difficulty(c, p)
        accumulated == compatibility_score
                       + 15 * Len(goals)
                       + (IF research THEN 15 ELSE 0)
                       + (IF experience THEN 10 ELSE 0)
                       + (IF education THEN 10 ELSE 0)
                       + difficulty_bonus
        \* the priority is taken before the floor of lines 893-895
        priority == Priority(accumulated)
        floored == accumulated = 0
        score == IF floored THEN 10 ELSE accumulated
        reasons == Reasons(prog_term) \o Reasons(math_term) \o Reasons(business_term)
                   \o GoalReasons(goals)
                   \o (IF research THEN <<Sentence("matches your research interests")>> ELSE <<>>)
                   \o (IF experience THEN <<Sentence("fits specialists with experience")>> ELSE <<>>)
                   \o (IF education THEN <<Sentence("fits your level of education")>> ELSE <<>>)
                   \o (IF floored THEN <<Sentence("basic course for all students")>> ELSE <<>>)
    IN  [ score               |-> score,
          accumulated         |-> accumulated,
          compatibility_score |-> compatibility_score,
          \* what the loops over the programming, the math and the business
          \* skills added: <<>> or <<amount, skill>>
          skill_terms         |-> <<prog_term, math_term, business_term>>,
          \* what the loop over the career goals added (lines 849-857)
          goal_term           |-> 15 * Len(goals),
          difficulty_bonus    |-> difficulty_bonus,
          priority            |-> priority,
          reasons             |-> reasons,
          \* line 898 passes `score` where the callee expects compatibility_score
          reason              |-> _generate_concrete_recommendation_reason(c, p, score),
          learning_path       |-> _determine_learning_path(c, p, prog) ]

\* Mutant of MakeRecommendation: the return statement without min(..., 10.0).
MakeRecommendationUnclamped(c, f) ==
    [ course              |-> c,
      score               |-> f.score,
      reason              |-> f.reason,
      priority            |-> f.priority,
      compatibility_score |-> f.compatibility_score,
      learning_path       |-> f.learning_path ]

\* the Recommendation built by the return statement (lines 903-910)
MakeRecommendation(c, f) ==
    [ course              |-> c,
      score               |-> Min(f.score, SCORE_CAP),
      reason              |-> f.reason,
      priority            |-> f.priority,
      compatibility_score |-> Min(f.compatibility_score, SCORE_CAP),
      learning_path       |-> f.learning_path ]

_evaluate_course_intelligently(mapping, c, p, prog) ==
    MakeRecommendation(c, EvaluationFrame(mapping, c, p, prog))

---------------------------------------------------------------------------
(* _get_program_recommendations *)

\* "обязательная"
TYPE_REQUIRED == <<1086,1073,1103,1079,1072,1090,1077,1083,1100,1085,1072,1103>>

\* "выборная"
TYPE_ELECTIVE == <<1074,1099,1073,1086,1088,1085,1072,1103>>

\* "факультативная"
TYPE_OPTIONAL == <<1092,1072,1082,1091,1083,1100,1090,1072,1090,1080,1074,1085,1072,1103>>

\* Mutant of SelectElectives: without the second step (lines 973-975).
SelectElectivesTwoSteps(courses) ==
    LET IsElective(c) == c.course_type \in {TYPE_ELECTIVE, TYPE_OPTIONAL}
        first == SelectSeq(courses, IsElective)
    IN  IF first = <<>> THEN courses ELSE first

\* lines 969-979
SelectElectives(courses) ==
    LET IsElective(c) == c.course_type \in {TYPE_ELECTIVE, TYPE_OPTIONAL}
        NotRequired(c) == c.course_type # TYPE_REQUIRED
        first == SelectSeq(courses, IsElective)
        second == IF first = <<>> THEN SelectSeq(courses, NotRequired) ELSE first
    IN  IF second = <<>> THEN courses ELSE second

\* Mutant of Insert: an unstable sort, r goes before the elements of equal score.
RECURSIVE InsertBeforeEqual(_, _)
InsertBeforeEqual(r, sorted) ==
    IF sorted = <<>> THEN <<r>>
    ELSE IF Head(sorted).score > r.score
         THEN <<Head(sorted)>> \o InsertBeforeEqual(r, Tail(sorted))
    ELSE <<r>> \o sorted

\* list.sort(key=lambda x: x.score, reverse=True): Python's sort is stable,
\* and with reverse=True elements of equal key keep their original order.
\* Insert puts r after every element whose score is >= r.score.
RECURSIVE Insert(_, _)
Insert(r, sorted) ==
    IF sorted = <<>> THEN <<r>>
    ELSE IF Head(sorted).score >= r.score THEN <<Head(sorted)>> \o Insert(r, Tail(sorted))
    ELSE <<r>> \o sorted

RECURSIVE SortByScoreDescending(_)
SortByScoreDescending(list) ==
    IF list = <<>> THEN <<>>
    ELSE Insert(list[Len(list)], SortByScoreDescending(SubSeq(list, 1, Len(list) - 1)))

\* Mutant of KeepRecommendation: the filter drops the low scores.
KeepRecommendationAboveLow(r) == r.score > LOW_SCORE_THRESHOLD

\* line 984: if recommendation.score > 0
KeepRecommendation(r) == r.score > 0

\* lines 982-985
ScoreCourses(mapping, courses, p, prog) ==
    LET all == [n \in 1..Len(courses) |->
                   _evaluate_course_intelligently(mapping, courses[n], p, prog)]
    IN  SelectSeq(all, KeepRecommendation)

_get_program_recommendations(mapping, prog, p) ==
    SortByScoreDescending(ScoreCourses(mapping, SelectElectives(prog.courses), p, prog))

---------------------------------------------------------------------------
(* get_course_recommendations *)

\* Mutant of UserType: the math skills are looked at before the programming
\* skills.
UserTypeMathFirst(p) ==
    IF p.math_skills # <<>> THEN "math_background"
    ELSE IF p.programming_skills # <<>>
    \* "python"
    THEN IF InList(<<112,121,116,104,111,110>>, p.programming_skills) THEN "python_dev"
         \* "java"
         ELSE IF InList(<<106,97,118,97>>, p.programming_skills) THEN "java_dev"
         ELSE "tech_dev"
    ELSE IF p.business_skills # <<>> THEN "business_background"
    ELSE "beginner"

\* lines 357-369
UserType(p) ==
    IF p.programming_skills # <<>>
    \* "python"
    THEN IF InList(<<112,121,116,104,111,110>>, p.programming_skills) THEN "python_dev"
         \* "java"
         ELSE IF InList(<<106,97,118,97>>, p.programming_skills) THEN "java_dev"
         ELSE "tech_dev"
    ELSE IF p.math_skills # <<>> THEN "math_background"
    ELSE IF p.business_skills # <<>> THEN "business_background"
    ELSE "beginner"

\* lines 401-423: the verdict for a program of the AI track
AIVerdict(type) ==
    CASE type = "python_dev" -> "best: Python + ML"
      [] type = "java_dev" -> "good: enterprise AI with Java"
      [] type = "tech_dev" -> "good: your programming skills"
      [] type = "math_background" -> "best: maths is the base of ML"
      [] type = "business_background" -> "possible: not ideal"
      [] OTHER -> "possible: good choice to start"

\* lines 425-439: the verdict for a program of the product track
ProductVerdict(type) ==
    CASE type = "business_background" -> "best: business + AI"
      [] type = "tech_dev" -> "good: technology + business"
      [] type \in {"python_dev", "java_dev"} -> "good: programming + product"
      [] type = "math_background" -> "possible: not ideal"
      [] OTHER -> "possible: good choice to start"

\* lines 398-439: the line appended for one program, <<>> when none is
VerdictLines(prog, type) ==
    LET program_name == Lower(prog.name)
    \* "искусственный интеллект"
    IN  IF \/ Contains(<<1080,1089,1082,1091,1089,1089,1090,1074,1077,1085,1085,1099,1081,32,1080,1085,1090,1077,1083,1083,1077,1082,1090>>, program_name)
           \* "ai"
           \/ (/\ Contains(<<97,105>>, program_name)
               \* "product"
               /\ ~Contains(<<112,114,111,100,117,99,116>>, program_name))
        THEN << [program |-> prog.name, verdict |-> AIVerdict(type)] >>
        \* "продукт"
        ELSE IF \/ Contains(<<1087,1088,1086,1076,1091,1082,1090>>, program_name)
                \* "product"
                \/ Contains(<<112,114,111,100,117,99,116>>, program_name)
        THEN << [program |-> prog.name, verdict |-> ProductVerdict(type)] >>
        ELSE <<>>

RECURSIVE AllVerdictLines(_, _)
AllVerdictLines(progs, type) ==
    IF progs = <<>> THEN <<>>
    ELSE VerdictLines(Head(progs), type) \o AllVerdictLines(Tail(progs), type)

get_course_recommendations(progs, text) ==
    LET p == _analyze_background(text)
        type == UserType(p)
    IN  [profile |-> p, user_type |-> type, report |-> AllVerdictLines(progs, type)]

---------------------------------------------------------------------------
(* __init__: the course index and the course clusters *)

\* d with `entry` appended to the list under `key`; a new key goes last
\* (lines 74-77: if key not in d: d[key] = []; d[key].append(entry))
AppendUnderKey(d, key, entry) ==
    IF \E n \in 1..Len(d) : d[n].key = key
    THEN [n \in 1..Len(d) |->
             IF d[n].key = key
             THEN [d[n] EXCEPT !.entries = Append(@, entry)]
             ELSE d[n]]
    ELSE Append(d, [key |-> key, entries |-> <<entry>>])

\* self.course_index after _build_course_index: for every lower-cased course
\* name, the (course, program name) pairs in catalog order
RECURSIVE IndexCourses(_, _, _)
IndexCourses(index, courses, prog) ==
    IF courses = <<>> THEN index
    ELSE IndexCourses(AppendUnderKey(index, Lower(Head(courses).name),
                                     [course |-> Head(courses), program |-> prog.name]),
                      Tail(courses), prog)

RECURSIVE IndexPrograms(_, _)
IndexPrograms(index, progs) ==
    IF progs = <<>> THEN index
    ELSE IndexPrograms(IndexCourses(index, Head(progs).courses, Head(progs)), Tail(progs))

_build_course_index(progs) == IndexPrograms(<<>>, progs)

CourseCluster(key, name, difficulty_level, prerequisites, career_relevance) ==
    [ key              |-> key,
      name             |-> name,
      courses          |-> <<>>,
      difficulty_level |-> difficulty_level,
      prerequisites    |-> prerequisites,
      career_relevance |-> career_relevance ]

\* the dict literal of _build_course_clusters (lines 81-138), every course
\* list empty
EmptyClusters ==
    \* "Основы искусственного интеллекта"
    << CourseCluster("ai_core", <<1054,1089,1085,1086,1074,1099,32,1080,1089,1082,1091,1089,1089,1090,1074,1077,1085,1085,1086,1075,1086,32,1080,1085,1090,1077,1083,1083,1077,1082,1090,1072>>, "intermediate",
                     \* "программирование"  "математика"
                     << <<1087,1088,1086,1075,1088,1072,1084,1084,1080,1088,1086,1074,1072,1085,1080,1077>>, <<1084,1072,1090,1077,1084,1072,1090,1080,1082,1072>> >>,
                     \* "ML Engineer"  "AI Developer"  "Data Scientist"
                     << <<77,76,32,69,110,103,105,110,101,101,114>>, <<65,73,32,68,101,118,101,108,111,112,101,114>>, <<68,97,116,97,32,83,99,105,101,110,116,105,115,116>> >>),
       \* "Машинное обучение"
       CourseCluster("machine_learning", <<1052,1072,1096,1080,1085,1085,1086,1077,32,1086,1073,1091,1095,1077,1085,1080,1077>>, "advanced",
                     \* "ai_core"  "статистика"  "линейная алгебра"
                     << <<97,105,95,99,111,114,101>>, <<1089,1090,1072,1090,1080,1089,1090,1080,1082,1072>>, <<1083,1080,1085,1077,1081,1085,1072,1103,32,1072,1083,1075,1077,1073,1088,1072>> >>,
                     \* "ML Engineer"  "Data Scientist"  "AI Researcher"
                     << <<77,76,32,69,110,103,105,110,101,101,114>>, <<68,97,116,97,32,83,99,105,101,110,116,105,115,116>>, <<65,73,32,82,101,115,101,97,114,99,104,101,114>> >>),
       \* "Глубокое обучение"
       CourseCluster("deep_learning", <<1043,1083,1091,1073,1086,1082,1086,1077,32,1086,1073,1091,1095,1077,1085,1080,1077>>, "advanced",
                     \* "machine_learning"  "нейронные сети"
                     << <<109,97,99,104,105,110,101,95,108,101,97,114,110,105,110,103>>, <<1085,1077,1081,1088,1086,1085,1085,1099,1077,32,1089,1077,1090,1080>> >>,
                     \* "ML Engineer"  "AI Researcher"  "Computer Vision Engineer"
                     << <<77,76,32,69,110,103,105,110,101,101,114>>, <<65,73,32,82,101,115,101,97,114,99,104,101,114>>, <<67,111,109,112,117,116,101,114,32,86,105,115,105,111,110,32,69,110,103,105,110,101,101,114>> >>),
       \* "Обработка естественного языка"
       CourseCluster("nlp", <<1054,1073,1088,1072,1073,1086,1090,1082,1072,32,1077,1089,1090,1077,1089,1090,1074,1077,1085,1085,1086,1075,1086,32,1103,1079,1099,1082,1072>>, "advanced",
                     \* "machine_learning"  "лингвистика"
                     << <<109,97,99,104,105,110,101,95,108,101,97,114,110,105,110,103>>, <<1083,1080,1085,1075,1074,1080,1089,1090,1080,1082,1072>> >>,
                     \* "NLP Engineer"  "AI Developer"  "Data Scientist"
                     << <<78,76,80,32,69,110,103,105,110,101,101,114>>, <<65,73,32,68,101,118,101,108,111,112,101,114>>, <<68,97,116,97,32,83,99,105,101,110,116,105,115,116>> >>),
       \* "Компьютерное зрение"
       CourseCluster("computer_vision", <<1050,1086,1084,1087,1100,1102,1090,1077,1088,1085,1086,1077,32,1079,1088,1077,1085,1080,1077>>, "advanced",
                     \* "machine_learning"  "линейная алгебра"
                     << <<109,97,99,104,105,110,101,95,108,101,97,114,110,105,110,103>>, <<1083,1080,1085,1077,1081,1085,1072,1103,32,1072,1083,1075,1077,1073,1088,1072>> >>,
                     \* "Computer Vision Engineer"  "AI Developer"  "ML Engineer"
                     << <<67,111,109,112,117,116,101,114,32,86,105,115,105,111,110,32,69,110,103,105,110,101,101,114>>, <<65,73,32,68,101,118,101,108,111,112,101,114>>, <<77,76,32,69,110,103,105,110,101,101,114>> >>),
       \* "AI в бизнесе"
       CourseCluster("business_ai", <<65,73,32,1074,32,1073,1080,1079,1085,1077,1089,1077>>, "intermediate",
                     \* "ai_core"  "бизнес-аналитика"
                     << <<97,105,95,99,111,114,101>>, <<1073,1080,1079,1085,1077,1089,45,1072,1085,1072,1083,1080,1090,1080,1082,1072>> >>,
                     \* "AI Product Manager"  "Business Analyst"  "Product Manager"
                     << <<65,73,32,80,114,111,100,117,99,116,32,77,97,110,97,103,101,114>>, <<66,117,115,105,110,101,115,115,32,65,110,97,108,121,115,116>>, <<80,114,111,100,117,99,116,32,77,97,110,97,103,101,114>> >>),
       \* "Управление продуктами"
       CourseCluster("product_management", <<1059,1087,1088,1072,1074,1083,1077,1085,1080,1077,32,1087,1088,1086,1076,1091,1082,1090,1072,1084,1080>>, "intermediate",
                     \* "бизнес-аналитика"  "менеджмент"
                     << <<1073,1080,1079,1085,1077,1089,45,1072,1085,1072,1083,1080,1090,1080,1082,1072>>, <<1084,1077,1085,1077,1076,1078,1084,1077,1085,1090>> >>,
                     \* "Product Manager"  "AI Product Manager"  "Business Analyst"
                     << <<80,114,111,100,117,99,116,32,77,97,110,97,103,101,114>>, <<65,73,32,80,114,111,100,117,99,116,32,77,97,110,97,103,101,114>>, <<66,117,115,105,110,101,115,115,32,65,110,97,108,121,115,116>> >>),
       \* "Анализ данных"
       CourseCluster("data_analytics", <<1040,1085,1072,1083,1080,1079,32,1076,1072,1085,1085,1099,1093>>, "intermediate",
                     \* "статистика"  "программирование"
                     << <<1089,1090,1072,1090,1080,1089,1090,1080,1082,1072>>, <<1087,1088,1086,1075,1088,1072,1084,1084,1080,1088,1086,1074,1072,1085,1080,1077>> >>,
                     \* "Data Analyst"  "Business Analyst"  "Data Scientist"
                     << <<68,97,116,97,32,65,110,97,108,121,115,116>>, <<66,117,115,105,110,101,115,115,32,65,110,97,108,121,115,116>>, <<68,97,116,97,32,83,99,105,101,110,116,105,115,116>> >>) >>

\* the keyword lists of _assign_course_to_cluster, in the order of its branches
\* "введение"  "основы"  "базовые"
cluster_introductory_keywords == << <<1074,1074,1077,1076,1077,1085,1080,1077>>, <<1086,1089,1085,1086,1074,1099>>, <<1073,1072,1079,1086,1074,1099,1077>> >>

\* "машинное обучение"  "ml"  "machine learning"
cluster_ml_keywords == << <<1084,1072,1096,1080,1085,1085,1086,1077,32,1086,1073,1091,1095,1077,1085,1080,1077>>, <<109,108>>, <<109,97,99,104,105,110,101,32,108,101,97,114,110,105,110,103>> >>

\* "глубокое обучение"  "deep learning"  "нейронные сети"
cluster_dl_keywords == << <<1075,1083,1091,1073,1086,1082,1086,1077,32,1086,1073,1091,1095,1077,1085,1080,1077>>, <<100,101,101,112,32,108,101,97,114,110,105,110,103>>, <<1085,1077,1081,1088,1086,1085,1085,1099,1077,32,1089,1077,1090,1080>> >>

\* "естественный язык"  "nlp"  "текст"
cluster_nlp_keywords == << <<1077,1089,1090,1077,1089,1090,1074,1077,1085,1085,1099,1081,32,1103,1079,1099,1082>>, <<110,108,112>>, <<1090,1077,1082,1089,1090>> >>

\* "зрение"  "vision"  "изображения"
cluster_vision_keywords == << <<1079,1088,1077,1085,1080,1077>>, <<118,105,115,105,111,110>>, <<1080,1079,1086,1073,1088,1072,1078,1077,1085,1080,1103>> >>

\* "бизнес"  "предпринимательство"  "стратегия"
cluster_business_keywords == << <<1073,1080,1079,1085,1077,1089>>, <<1087,1088,1077,1076,1087,1088,1080,1085,1080,1084,1072,1090,1077,1083,1100,1089,1090,1074,1086>>, <<1089,1090,1088,1072,1090,1077,1075,1080,1103>> >>

\* "анализ"  "данные"  "статистика"
cluster_analytics_keywords == << <<1072,1085,1072,1083,1080,1079>>, <<1076,1072,1085,1085,1099,1077>>, <<1089,1090,1072,1090,1080,1089,1090,1080,1082,1072>> >>

\* 'искусственный интеллект' in course_lower or 'ai' in course_lower
MentionsAI(course_lower) ==
    \* "искусственный интеллект"  "ai"
    Contains(<<1080,1089,1082,1091,1089,1089,1090,1074,1077,1085,1085,1099,1081,32,1080,1085,1090,1077,1083,1083,1077,1082,1090>>, course_lower) \/ Contains(<<97,105>>, course_lower)

\* lines 150-156: the branch of the introductory courses; "none" when none of
\* its three inner tests succeeds (the if/elif chain has no else)
IntroductoryTarget(course_lower) ==
    IF MentionsAI(course_lower) THEN "ai_core"
    \* "продукт"  "менеджмент"
    ELSE IF Contains(<<1087,1088,1086,1076,1091,1082,1090>>, course_lower) \/ Contains(<<1084,1077,1085,1077,1076,1078,1084,1077,1085,1090>>, course_lower)
    THEN "product_management"
    \* "анализ"  "данные"
    ELSE IF Contains(<<1072,1085,1072,1083,1080,1079>>, course_lower) \/ Contains(<<1076,1072,1085,1085,1099,1077>>, course_lower)
    THEN "data_analytics"
    ELSE "none"

\* lines 175-181: the branch of the business courses
BusinessTarget(course_lower) ==
    IF MentionsAI(course_lower) THEN "business_ai" ELSE "product_management"

\* Mutant of TargetCluster: the deep-learning branch stands before the
\* machine-learning branch.
TargetClusterDeepFirst(course_lower) ==
    IF AnyIn(cluster_introductory_keywords, course_lower) THEN IntroductoryTarget(course_lower)
    ELSE IF AnyIn(cluster_dl_keywords, course_lower) THEN "deep_learning"
    ELSE IF AnyIn(cluster_ml_keywords, course_lower) THEN "machine_learning"
    ELSE IF AnyIn(cluster_nlp_keywords, course_lower) THEN "nlp"
    ELSE IF AnyIn(cluster_vision_keywords, course_lower) THEN "computer_vision"
    ELSE IF AnyIn(cluster_business_keywords, course_lower) THEN BusinessTarget(course_lower)
    ELSE IF AnyIn(cluster_analytics_keywords, course_lower) THEN "data_analytics"
    ELSE "none"

\* lines 150-184: the key of the cluster the if/elif chain appends the course
\* to, "none" when it appends to no cluster
TargetCluster(course_lower) ==
    IF AnyIn(cluster_introductory_keywords, course_lower) THEN IntroductoryTarget(course_lower)
    ELSE IF AnyIn(cluster_ml_keywords, course_lower) THEN "machine_learning"
    ELSE IF AnyIn(cluster_dl_keywords, course_lower) THEN "deep_learning"
    ELSE IF AnyIn(cluster_nlp_keywords, course_lower) THEN "nlp"
    ELSE IF AnyIn(cluster_vision_keywords, course_lower) THEN "computer_vision"
    ELSE IF AnyIn(cluster_business_keywords, course_lower) THEN BusinessTarget(course_lower)
    ELSE IF AnyIn(cluster_analytics_keywords, course_lower) THEN "data_analytics"
    ELSE "none"

\* self.course_clusters[key].courses.append(c)
AppendToCluster(clusters, key, c) ==
    [n \in 1..Len(clusters) |->
        IF clusters[n].key = key
        THEN [clusters[n] EXCEPT !.courses = Append(@, c)]
        ELSE clusters[n]]

\* Mutant of _assign_course_to_cluster: independent `if`s instead of the
\* elif chain, the course goes to the cluster of every group it matches.
AssignToEveryMatchingGroup(clusters, c) ==
    LET course_lower == Lower(c.name)
        Step(cl, keywords, key) ==
            IF AnyIn(keywords, course_lower) THEN AppendToCluster(cl, key, c) ELSE cl
        c1 == IF AnyIn(cluster_introductory_keywords, course_lower)
              THEN AppendToCluster(clusters, IntroductoryTarget(course_lower), c)
              ELSE clusters
        c2 == Step(c1, cluster_ml_keywords, "machine_learning")
        c3 == Step(c2, cluster_dl_keywords, "deep_learning")
        c4 == Step(c3, cluster_nlp_keywords, "nlp")
        c5 == Step(c4, cluster_vision_keywords, "computer_vision")
        c6 == IF AnyIn(cluster_business_keywords, course_lower)
              THEN AppendToCluster(c5, BusinessTarget(course_lower), c)
              ELSE c5
    IN  Step(c6, cluster_analytics_keywords, "data_analytics")

\* lines 145-184; AppendToCluster leaves the clusters as they are for "none"
_assign_course_to_cluster(clusters, c) ==
    AppendToCluster(clusters, TargetCluster(Lower(c.name)), c)

\* lines 140-143: the courses of every program, in catalog order
RECURSIVE AssignCourses(_, _)
AssignCourses(clusters, courses) ==
    IF courses = <<>> THEN clusters
    ELSE AssignCourses(_assign_course_to_cluster(clusters, Head(courses)), Tail(courses))

RECURSIVE AssignPrograms(_, _)
AssignPrograms(clusters, progs) ==
    IF progs = <<>> THEN clusters
    ELSE AssignPrograms(AssignCourses(clusters, Head(progs).courses), Tail(progs))

_build_course_clusters(progs) == AssignPrograms(EmptyClusters, progs)

\* self.course_clusters[key].courses
ClusterCourses(clusters, key) ==
    clusters[CHOOSE n \in 1..Len(clusters) : clusters[n].key = key].courses

\* lines 992-1032: the lines of _get_cluster_recommendations, in order
_get_cluster_recommendations(clusters, prog, p) ==
    LET Has(key) == ClusterCourses(clusters, key) # <<>>
        Line(cond, text) == IF cond THEN <<text>> ELSE <<>>
        both == p.programming_skills # <<>> /\ p.math_skills # <<>>
        lines ==
            Line(both /\ Has("ai_core"), "AI basics: a start for programmers")
            \o Line(both /\ Has("machine_learning"), "machine learning: the key direction")
            \o Line(p.business_skills # <<>> /\ Has("business_ai"), "AI in business")
            \o Line(p.business_skills # <<>> /\ Has("product_management"),
                    "product management")
            \o Line(p.research_interests # <<>> /\ Has("deep_learning"),
                    "deep learning: for researchers")
    IN  IF lines = <<>> THEN << "study the courses semester by semester" >> ELSE lines

---------------------------------------------------------------------------
(* The reports: compare, detail, career paths, admission, keyword search *)

\* The string a report method returns is modelled as the sequence of the
\* pieces its f-strings put into it, each piece [field, value] with `value`
\* the interpolated text; the fixed words around a value are named by `field`.
Piece(field, value) == [field |-> field, value |-> value]

\* str(n) for a natural number: its decimal digits
RECURSIVE Str(_)
Str(n) == IF n < 10 THEN <<48 + n>> ELSE Str(n \div 10) \o <<48 + (n % 10)>>

\* 'Да' if flag else 'Нет'
\* "Да"  "Нет"
YesNo(flag) == IF flag THEN <<1044,1072>> ELSE <<1053,1077,1090>>

IsLower(c) == (c >= 97 /\ c <= 122) \/ (c >= 1072 /\ c <= 1103) \/ c = 1105

IsUpper(c) == LowerChar(c) # c

\* str.upper() on one character
UpperChar(c) ==
    IF (c >= 97 /\ c <= 122) \/ (c >= 1072 /\ c <= 1103) THEN c - 32
    ELSE IF c = 1105 THEN 1025
    ELSE c

\* str.title(): a letter that follows a letter is lower-cased, any other
\* letter is upper-cased
Title(s) ==
    [i \in 1..Len(s) |->
        IF i > 1 /\ (IsLower(s[i - 1]) \/ IsUpper(s[i - 1]))
        THEN LowerChar(s[i])
        ELSE UpperChar(s[i])]

\* s[:n]
Prefix(s, n) == SubSeq(s, 1, IF Len(s) < n THEN Len(s) ELSE n)

\* Program of web_parser.py with all its fields.  `cost` is str | None and is
\* only ever tested for truth (lines 303, 1290): <<>> stands for None and ''.
ProgramRecord(name, url, description, duration, courses, total_credits, institute, form, language, cost, dormitory, military_center, accreditation) ==
    [ name            |-> name,
      url             |-> url,
      description     |-> description,
      duration        |-> duration,
      courses         |-> courses,
      total_credits   |-> total_credits,
      institute       |-> institute,
      form            |-> form,
      language        |-> language,
      cost            |-> cost,
      dormitory       |-> dormitory,
      military_center |-> military_center,
      accreditation   |-> accreditation ]

\* lines 296-311: the paragraph of one program
ComparisonParagraph(prog) ==
    << Piece("name", prog.name),
       Piece("institute", prog.institute),
       Piece("courses", Str(Len(prog.courses))),
       Piece("total_credits", Str(prog.total_credits)),
       Piece("duration", Str(prog.duration)),
       Piece("form", prog.form),
       Piece("language", prog.language) >>
    \o (IF prog.cost # <<>> THEN << Piece("cost", prog.cost) >> ELSE <<>>)
    \o << Piece("dormitory", YesNo(prog.dormitory)),
          Piece("military_center", YesNo(prog.military_center)),
          Piece("accreditation", YesNo(prog.accreditation)) >>

\* Mutant of get_program_comparison: a program with no cost gets no paragraph.
ComparisonOfProgramsWithCost(progs) ==
    LET HasCost(prog) == prog.cost # <<>>
        priced == SelectSeq(progs, HasCost)
    IN  [n \in 1..Len(priced) |-> ComparisonParagraph(priced[n])]

\* lines 291-313: the paragraphs after the title line, one per loop iteration
get_program_comparison(progs) ==
    [n \in 1..Len(progs) |-> ComparisonParagraph(progs[n])]

\* Mutant of _find_program_by_name: the name is compared as it is written.
FindProgramCaseSensitive(progs, program_name) ==
    LET Matches(prog) == Contains(Lower(program_name), prog.name)
        found == SelectSeq(progs, Matches)
    IN  IF found = <<>> THEN <<>> ELSE <<found[1]>>

\* lines 1159-1165: <<>> is None, <<prog>> the first program that matches
_find_program_by_name(progs, program_name) ==
    LET Matches(prog) == Contains(Lower(program_name), Lower(prog.name))
        found == SelectSeq(progs, Matches)
    IN  IF found = <<>> THEN <<>> ELSE <<found[1]>>

\* "❌ Программа не найдена"
NOT_FOUND == <<10060,32,1055,1088,1086,1075,1088,1072,1084,1084,1072,32,1085,1077,32,1085,1072,1081,1076,1077,1085,1072>>

\* the elements of keys, each once, in the order of first occurrence (the
\* keys of a dict filled in a loop)
RECURSIVE KeysInOrder(_, _)
KeysInOrder(keys, seen) ==
    IF keys = <<>> THEN seen
    ELSE KeysInOrder(Tail(keys),
                     IF InList(Head(keys), seen) THEN seen ELSE Append(seen, Head(keys)))

\* sorted(keys) for integer keys
RECURSIVE SortedKeys(_)
SortedKeys(keys) ==
    IF keys = <<>> THEN <<>>
    ELSE LET least == CHOOSE k \in { keys[n] : n \in 1..Len(keys) } :
                          \A n \in 1..Len(keys) : k <= keys[n]
             NotLeast(k) == k # least
         IN  <<least>> \o SortedKeys(SelectSeq(keys, NotLeast))

RECURSIVE Flatten(_)
Flatten(seqs) == IF seqs = <<>> THEN <<>> ELSE Head(seqs) \o Flatten(Tail(seqs))

\* lines 337-349: the courses of one semester, grouped by type
SemesterPieces(courses, semester) ==
    LET InSemester(c) == c.semester = semester
        of_semester == SelectSeq(courses, InSemester)
        types == KeysInOrder([n \in 1..Len(of_semester) |-> of_semester[n].course_type], <<>>)
        TypePieces(type) ==
            LET OfType(c) == c.course_type = type
                type_courses == SelectSeq(of_semester, OfType)
            IN  << Piece("course_type", Title(type)) >>
                \o Flatten([n \in 1..Len(type_courses) |->
                               << Piece("course", type_courses[n].name),
                                  Piece("credits", Str(type_courses[n].credits)) >>])
    IN  << Piece("semester", Str(semester)), Piece("count", Str(Len(of_semester))) >>
        \o Flatten([n \in 1..Len(types) |-> TypePieces(types[n])])

\* lines 315-350
get_detailed_program_info(progs, program_name) ==
    LET found == _find_program_by_name(progs, program_name)
        prog == found[1]
        semesters == SortedKeys(KeysInOrder(
                         [n \in 1..Len(prog.courses) |-> prog.courses[n].semester], <<>>))
    IN  IF found = <<>> THEN << Piece("text", NOT_FOUND) >>
        ELSE << Piece("name", prog.name),
                Piece("institute", prog.institute),
                Piece("description", Prefix(prog.description, 200)) >>
             \o Flatten([n \in 1..Len(semesters) |->
                            SemesterPieces(prog.courses, semesters[n])])

\* "Карьерные пути для программы "Искусственный интеллект""
CAREER_PATHS_AI == <<1050,1072,1088,1100,1077,1088,1085,1099,1077,32,1087,1091,1090,1080,32,1076,1083,1103,32,1087,1088,1086,1075,1088,1072,1084,1084,1099,32,34,1048,1089,1082,1091,1089,1089,1090,1074,1077,1085,1085,1099,1081,32,1080,1085,1090,1077,1083,1083,1077,1082,1090,34>>

\* "Карьерные пути для программы "AI Product Management""
CAREER_PATHS_PRODUCT == <<1050,1072,1088,1100,1077,1088,1085,1099,1077,32,1087,1091,1090,1080,32,1076,1083,1103,32,1087,1088,1086,1075,1088,1072,1084,1084,1099,32,34,65,73,32,80,114,111,100,117,99,116,32,77,97,110,97,103,101,109,101,110,116,34>>

CAREER_PATHS_UNAVAILABLE ==
    \* "❌ Информация о карьерных путях недоступна для данной программы"
    <<10060,32,1048,1085,1092,1086,1088,1084,1072,1094,1080,1103,32,1086,32,1082,1072,1088,1100,1077,1088,1085,1099,1093,32,1087,1091,1090,1103,1093,32,1085,1077,1076,1086,1089,1090,1091,1087,1085,1072,32,1076,1083,1103,32,1076,1072,1085,1085,1086,1081,32,1087,1088,1086,1075,1088,1072,1084,1084,1099>>

\* lines 1191-1248; the two long texts are named by their title lines
get_career_paths(progs, program_name) ==
    LET found == _find_program_by_name(progs, program_name)
        name_lower == Lower(found[1].name)
    IN  IF found = <<>> THEN << Piece("text", NOT_FOUND) >>
        \* "искусственный интеллект"
        ELSE IF Contains(<<1080,1089,1082,1091,1089,1089,1090,1074,1077,1085,1085,1099,1081,32,1080,1085,1090,1077,1083,1083,1077,1082,1090>>, name_lower)
        THEN << Piece("text", CAREER_PATHS_AI) >>
        \* "product"
        ELSE IF Contains(<<112,114,111,100,117,99,116>>, name_lower)
        THEN << Piece("text", CAREER_PATHS_PRODUCT) >>
        ELSE << Piece("text", CAREER_PATHS_UNAVAILABLE) >>

\* lines 1250-1294
get_admission_info(progs, program_name) ==
    LET found == _find_program_by_name(progs, program_name)
        prog == found[1]
    IN  IF found = <<>> THEN << Piece("text", NOT_FOUND) >>
        ELSE << Piece("name", prog.name),
                Piece("cost", IF prog.cost # <<>> THEN prog.cost
                              \* "Уточняйте на сайте"
                              ELSE <<1059,1090,1086,1095,1085,1103,1081,1090,1077,32,1085,1072,32,1089,1072,1081,1090,1077>>),
                \* "Доступно"
                Piece("dormitory", IF prog.dormitory THEN <<1044,1086,1089,1090,1091,1087,1085,1086>>
                                   \* "Недоступно"
                                   ELSE <<1053,1077,1076,1086,1089,1090,1091,1087,1085,1086>>) >>

\* lines 1167-1189: the programs whose name, description or one course name
\* contains the lower-cased keywords
get_program_by_keywords(progs, keywords) ==
    LET keywords_lower == Lower(keywords)
        Matches(prog) ==
            \/ Contains(keywords_lower, Lower(prog.name))
            \/ Contains(keywords_lower, Lower(prog.description))
            \/ \E n \in 1..Len(prog.courses) :
                   Contains(keywords_lower, Lower(prog.courses[n].name))
    IN  SelectSeq(progs, Matches)

---------------------------------------------------------------------------
(* Inputs *)

\* a text is the concatenation of at most MaxPhrases phrases
MaxPhrases == 2

\* a course name is made of at most MaxNameParts parts, joined by a space
MaxNameParts == 3

\* a ranked program has at most MaxCourses courses
MaxCourses == 3

RECURSIVE Concat(_)
Concat(parts) == IF parts = <<>> THEN <<>> ELSE Head(parts) \o Concat(Tail(parts))

RECURSIVE JoinWithSpace(_)
JoinWithSpace(parts) ==
    IF parts = <<>> THEN <<>>
    ELSE IF Len(parts) = 1 THEN Head(parts)
    ELSE Head(parts) \o <<32>> \o JoinWithSpace(Tail(parts))

UpTo(S, n) == UNION { [1..k -> S] : k \in 0..n }

\* the text of the first end-to-end scenario
\* "У меня есть опыт в программировании на Python и математике"
Scenario1Text == <<1059,32,1084,1077,1085,1103,32,1077,1089,1090,1100,32,1086,1087,1099,1090,32,1074,32,1087,1088,1086,1075,1088,1072,1084,1084,1080,1088,1086,1074,1072,1085,1080,1080,32,1085,1072,32,80,121,116,104,111,110,32,1080,32,1084,1072,1090,1077,1084,1072,1090,1080,1082,1077>>

\* the text of the negation example
\* "я не знаю питон, но хорошо пишу на java"
NegationExampleText == <<1103,32,1085,1077,32,1079,1085,1072,1102,32,1087,1080,1090,1086,1085,44,32,1085,1086,32,1093,1086,1088,1086,1096,1086,32,1087,1080,1096,1091,32,1085,1072,32,106,97,118,97>>

\* a text with no keyword of any table
\* "Привет! "
GreetingText == <<1055,1088,1080,1074,1077,1090,33,32>>

\* The first four phrases make up test_backgrounds of test_analyzer (lines
\* 1356-1362) with 'математик' below; the others bring each negation phrase,
\* upper-case letters and the remaining single-valued fields.
Phrases ==
    { Scenario1Text,
      \* ", работаю в сфере разработки"
      <<44,32,1088,1072,1073,1086,1090,1072,1102,32,1074,32,1089,1092,1077,1088,1077,32,1088,1072,1079,1088,1072,1073,1086,1090,1082,1080>>,
      \* "Я работаю в сфере бизнеса и менеджмента, есть опыт управления проектами"
      <<1071,32,1088,1072,1073,1086,1090,1072,1102,32,1074,32,1089,1092,1077,1088,1077,32,1073,1080,1079,1085,1077,1089,1072,32,1080,32,1084,1077,1085,1077,1076,1078,1084,1077,1085,1090,1072,44,32,1077,1089,1090,1100,32,1086,1087,1099,1090,32,1091,1087,1088,1072,1074,1083,1077,1085,1080,1103,32,1087,1088,1086,1077,1082,1090,1072,1084,1080>>,
      \* "У меня техническое образование и опыт в разработке, интересуюсь наукой"
      <<1059,32,1084,1077,1085,1103,32,1090,1077,1093,1085,1080,1095,1077,1089,1082,1086,1077,32,1086,1073,1088,1072,1079,1086,1074,1072,1085,1080,1077,32,1080,32,1086,1087,1099,1090,32,1074,32,1088,1072,1079,1088,1072,1073,1086,1090,1082,1077,44,32,1080,1085,1090,1077,1088,1077,1089,1091,1102,1089,1100,32,1085,1072,1091,1082,1086,1081>>,
      NegationExampleText,
      \* "математик"
      <<1084,1072,1090,1077,1084,1072,1090,1080,1082>>,
      \* " не умею "
      <<32,1085,1077,32,1091,1084,1077,1102,32>>,
      \* "не понимаю"
      <<1085,1077,32,1087,1086,1085,1080,1084,1072,1102>>,
      \* "НЕ ВЛАДЕЮ"
      <<1053,1045,32,1042,1051,1040,1044,1045,1070>>,
      \* "Не программирую "
      <<1053,1077,32,1087,1088,1086,1075,1088,1072,1084,1084,1080,1088,1091,1102,32>>,
      \* " Java"
      <<32,74,97,118,97>>,
      \* "Магистр, наука, вечерняя, "
      <<1052,1072,1075,1080,1089,1090,1088,44,32,1085,1072,1091,1082,1072,44,32,1074,1077,1095,1077,1088,1085,1103,1103,44,32>>,
      GreetingText }

Texts == { Concat(ps) : ps \in UpTo(Phrases, MaxPhrases) }

\* the texts whose profiles the scorer and the ranking are run with
\* "Магистр, менеджер, знаю Python и математика, наука"
RichText == <<1052,1072,1075,1080,1089,1090,1088,44,32,1084,1077,1085,1077,1076,1078,1077,1088,44,32,1079,1085,1072,1102,32,80,121,116,104,111,110,32,1080,32,1084,1072,1090,1077,1084,1072,1090,1080,1082,1072,44,32,1085,1072,1091,1082,1072>>

ScoreTexts ==
    { GreetingText, Scenario1Text, RichText,
      \* "Я работаю в сфере бизнеса и менеджмента, есть опыт управления проектами"
      <<1071,32,1088,1072,1073,1086,1090,1072,1102,32,1074,32,1089,1092,1077,1088,1077,32,1073,1080,1079,1085,1077,1089,1072,32,1080,32,1084,1077,1085,1077,1076,1078,1084,1077,1085,1090,1072,44,32,1077,1089,1090,1100,32,1086,1087,1099,1090,32,1091,1087,1088,1072,1074,1083,1077,1085,1080,1103,32,1087,1088,1086,1077,1082,1090,1072,1084,1080>>,
      \* "У меня техническое образование и опыт в разработке, интересуюсь наукой"
      <<1059,32,1084,1077,1085,1103,32,1090,1077,1093,1085,1080,1095,1077,1089,1082,1086,1077,32,1086,1073,1088,1072,1079,1086,1074,1072,1085,1080,1077,32,1080,32,1086,1087,1099,1090,32,1074,32,1088,1072,1079,1088,1072,1073,1086,1090,1082,1077,44,32,1080,1085,1090,1077,1088,1077,1089,1091,1102,1089,1100,32,1085,1072,1091,1082,1086,1081>>,
      \* "математик"
      <<1084,1072,1090,1077,1084,1072,1090,1080,1082>>,
      \* "аспирант, Java, статистика"
      <<1072,1089,1087,1080,1088,1072,1085,1090,44,32,74,97,118,97,44,32,1089,1090,1072,1090,1080,1089,1090,1080,1082,1072>>,
      \* "хочу стать Data Scientist, Product Manager"
      <<1093,1086,1095,1091,32,1089,1090,1072,1090,1100,32,68,97,116,97,32,83,99,105,101,110,116,105,115,116,44,32,80,114,111,100,117,99,116,32,77,97,110,97,103,101,114>> }

RankTexts == { GreetingText, Scenario1Text, RichText }

\* "Машинное обучение"
MachineLearningName == <<1052,1072,1096,1080,1085,1085,1086,1077,32,1086,1073,1091,1095,1077,1085,1080,1077>>

\* "Этика ИИ"
EthicsName == <<1069,1090,1080,1082,1072,32,1048,1048>>

NameParts ==
    \* "Основы"  "Продвинутый"  "анализ"
    { MachineLearningName, EthicsName, <<1054,1089,1085,1086,1074,1099>>, <<1055,1088,1086,1076,1074,1080,1085,1091,1090,1099,1081>>, <<1072,1085,1072,1083,1080,1079>>,
      \* "проект"  "статистика"  "программирование"  "управление"
      <<1087,1088,1086,1077,1082,1090>>, <<1089,1090,1072,1090,1080,1089,1090,1080,1082,1072>>, <<1087,1088,1086,1075,1088,1072,1084,1084,1080,1088,1086,1074,1072,1085,1080,1077>>, <<1091,1087,1088,1072,1074,1083,1077,1085,1080,1077>> }

CourseNames == { JoinWithSpace(ps) : ps \in UpTo(NameParts, MaxNameParts) }

\* Course(name, credits, semester, course_type)
Course(name, credits, semester, course_type) ==
    [name |-> name, credits |-> credits, semester |-> semester, course_type |-> course_type]

\* any other string is accepted as a course type by the dataclass
\* "практика"
TYPE_OTHER == <<1087,1088,1072,1082,1090,1080,1082,1072>>

CourseTypes == {TYPE_REQUIRED, TYPE_ELECTIVE, TYPE_OPTIONAL, TYPE_OTHER}

\* the courses the scorer is run on: every name in the second semester, and
\* the names of one part in every semester and in one past the fourth
ScoredCourses ==
    { Course(name, 4, SECOND_SEMESTER, TYPE_ELECTIVE) : name \in CourseNames }
    \cup { Course(name, 4, semester, TYPE_ELECTIVE) :
              name \in NameParts, semester \in FIRST_SEMESTER..(FOURTH_SEMESTER + 1) }

\* the courses of the ranked programs
RankedCourses ==
    { Course(name, 4, SECOND_SEMESTER, type) :
        \* "Глубокое обучение"
        name \in {MachineLearningName, <<1043,1083,1091,1073,1086,1082,1086,1077,32,1086,1073,1091,1095,1077,1085,1080,1077>>, EthicsName},
        type \in CourseTypes }

Program(name, courses) == [name |-> name, courses |-> courses]

RankedPrograms ==
    \* "Магистратура 'Искусственный интеллект'"
    { Program(<<1052,1072,1075,1080,1089,1090,1088,1072,1090,1091,1088,1072,32,39,1048,1089,1082,1091,1089,1089,1090,1074,1077,1085,1085,1099,1081,32,1080,1085,1090,1077,1083,1083,1077,1082,1090,39>>, cs) :
        cs \in UpTo(RankedCourses, MaxCourses) }

\* test_courses and test_programs of test_analyzer (lines 1303-1352)
test_courses ==
    \* "Машинное обучение"
    << Course(<<1052,1072,1096,1080,1085,1085,1086,1077,32,1086,1073,1091,1095,1077,1085,1080,1077>>, 6, 1, TYPE_REQUIRED),
       \* "Глубокое обучение"
       Course(<<1043,1083,1091,1073,1086,1082,1086,1077,32,1086,1073,1091,1095,1077,1085,1080,1077>>, 6, 2, TYPE_REQUIRED),
       \* "Обработка естественного языка"
       Course(<<1054,1073,1088,1072,1073,1086,1090,1082,1072,32,1077,1089,1090,1077,1089,1090,1074,1077,1085,1085,1086,1075,1086,32,1103,1079,1099,1082,1072>>, 4, 2, TYPE_ELECTIVE),
       \* "Компьютерное зрение"
       Course(<<1050,1086,1084,1087,1100,1102,1090,1077,1088,1085,1086,1077,32,1079,1088,1077,1085,1080,1077>>, 4, 2, TYPE_ELECTIVE),
       \* "Анализ данных"
       Course(<<1040,1085,1072,1083,1080,1079,32,1076,1072,1085,1085,1099,1093>>, 4, 1, TYPE_REQUIRED),
       \* "Статистика и вероятности"
       Course(<<1057,1090,1072,1090,1080,1089,1090,1080,1082,1072,32,1080,32,1074,1077,1088,1086,1103,1090,1085,1086,1089,1090,1080>>, 4, 1, TYPE_REQUIRED),
       \* "Программирование на Python"
       Course(<<1055,1088,1086,1075,1088,1072,1084,1084,1080,1088,1086,1074,1072,1085,1080,1077,32,1085,1072,32,80,121,116,104,111,110>>, 4, 1, TYPE_REQUIRED),
       \* "Нейронные сети"
       Course(<<1053,1077,1081,1088,1086,1085,1085,1099,1077,32,1089,1077,1090,1080>>, 6, 2, TYPE_REQUIRED),
       \* "Этика ИИ"
       Course(<<1069,1090,1080,1082,1072,32,1048,1048>>, 2, 3, TYPE_OPTIONAL),
       \* "Проектная работа"
       Course(<<1055,1088,1086,1077,1082,1090,1085,1072,1103,32,1088,1072,1073,1086,1090,1072>>, 8, 3, TYPE_REQUIRED),
       \* "Магистерская диссертация"
       Course(<<1052,1072,1075,1080,1089,1090,1077,1088,1089,1082,1072,1103,32,1076,1080,1089,1089,1077,1088,1090,1072,1094,1080,1103>>, 12, 4, TYPE_REQUIRED) >>

test_programs ==
    \* "Магистратура 'Искусственный интеллект'"
    << Program(<<1052,1072,1075,1080,1089,1090,1088,1072,1090,1091,1088,1072,32,39,1048,1089,1082,1091,1089,1089,1090,1074,1077,1085,1085,1099,1081,32,1080,1085,1090,1077,1083,1083,1077,1082,1090,39>>, test_courses),
       \* "Магистратура 'AI Product Management'"
       Program(<<1052,1072,1075,1080,1089,1090,1088,1072,1090,1091,1088,1072,32,39,65,73,32,80,114,111,100,117,99,116,32,77,97,110,97,103,101,109,101,110,116,39>>, test_courses) >>

---------------------------------------------------------------------------
(* The engine and the calls made on it *)

None == "None"

\* ProgramAnalyzer(progs): the attributes __init__ sets (lines 63-67)
__init__(progs) ==
    /\ programs = progs
    /\ course_index = _build_course_index(progs)
    /\ course_clusters = _build_course_clusters(progs)
    /\ skill_mapping = _build_skill_mapping

\* no call made yet
NoCall ==
    /\ pc = "start"
    /\ op = "none"
    /\ background = None
    /\ profile = None
    /\ course = None
    /\ program = None
    /\ frame = None
    /\ recommendation = None
    /\ elective_courses = None
    /\ recommendations = None
    /\ user_type = None
    /\ report = None
    /\ argument = None
    /\ returned = None

\* ProgramAnalyzer(test_programs): the state after __init__; no call made yet
Init ==
    /\ __init__(test_programs)
    /\ NoCall
    /\ bot = None
    /\ parser = None
    /\ calls = None
    /\ locals = None

\* profile = self._analyze_background(text)
Call_analyze_background(text) ==
    /\ pc = "start"
    /\ background' = text
    /\ profile' = _analyze_background(text)
    /\ op' = "_analyze_background"
    /\ pc' = "profiled"
    /\ UNCHANGED <<bot, parser, engine, argument, returned, calls, locals, course, program, frame, recommendation,
                   elective_courses, recommendations, user_type, report>>

\* self.get_course_recommendations(text)
Call_get_course_recommendations(text) ==
    /\ pc = "start"
    /\ background' = text
    /\ LET result == get_course_recommendations(programs, text)
       IN  /\ profile' = result.profile
           /\ user_type' = result.user_type
           /\ report' = result.report
    /\ op' = "get_course_recommendations"
    /\ pc' = "done"
    /\ UNCHANGED <<bot, parser, engine, argument, returned, calls, locals, course, program, frame, recommendation,
                   elective_courses, recommendations>>

\* self._evaluate_course_intelligently(c, profile, programs[0])
Call_evaluate_course_intelligently(c) ==
    /\ pc = "profiled"
    /\ course' = c
    /\ program' = programs[1]
    /\ frame' = EvaluationFrame(skill_mapping, c, profile, programs[1])
    /\ recommendation' = _evaluate_course_intelligently(skill_mapping, c, profile, programs[1])
    /\ op' = "_evaluate_course_intelligently"
    /\ pc' = "done"
    /\ UNCHANGED <<bot, parser, engine, argument, returned, calls, locals, background, profile, elective_courses,
                   recommendations, user_type, report>>

\* self._get_program_recommendations(prog, profile)
Call_get_program_recommendations(prog) ==
    /\ pc = "profiled"
    /\ program' = prog
    /\ elective_courses' = SelectElectives(prog.courses)
    /\ recommendations' = _get_program_recommendations(skill_mapping, prog, profile)
    /\ op' = "_get_program_recommendations"
    /\ pc' = "done"
    /\ UNCHANGED <<bot, parser, engine, argument, returned, calls, locals, background, profile, course, frame,
                   recommendation, user_type, report>>

\* The profile extractor and the recommender on every text
ExtractNext ==
    \/ \E text \in Texts : Call_analyze_background(text)
    \/ \E text \in Texts : Call_get_course_recommendations(text)

SpecExtract == Init /\ [][ExtractNext]_vars

\* The scorer on every course, with the profile extracted from a text
ScoreNext ==
    \/ \E text \in ScoreTexts : Call_analyze_background(text)
    \/ \E c \in ScoredCourses : Call_evaluate_course_intelligently(c)

SpecScore == Init /\ [][ScoreNext]_vars

\* The ranking of every program, with the profile extracted from a text
RankNext ==
    \/ \E text \in RankTexts : Call_analyze_background(text)
    \/ \E prog \in RankedPrograms : Call_get_program_recommendations(prog)

SpecRank == Init /\ [][RankNext]_vars

---------------------------------------------------------------------------
(* Engines built from other catalogs: the clusters *)

\* a name of a catalog course is made of at most MaxClusterParts parts
MaxClusterParts == 2

\* one keyword of every group of _assign_course_to_cluster, the words its
\* inner tests look for, and a word no group knows
ClusterParts ==
    \* "Введение в"  "глубокое обучение"  "текст"  "зрение"
    { <<1042,1074,1077,1076,1077,1085,1080,1077,32,1074>>, MachineLearningName, <<1075,1083,1091,1073,1086,1082,1086,1077,32,1086,1073,1091,1095,1077,1085,1080,1077>>, <<1090,1077,1082,1089,1090>>, <<1079,1088,1077,1085,1080,1077>>,
      \* "бизнес"  "анализ"  "AI"  "продукт"  "Этика"
      <<1073,1080,1079,1085,1077,1089>>, <<1072,1085,1072,1083,1080,1079>>, <<65,73>>, <<1087,1088,1086,1076,1091,1082,1090>>, <<1069,1090,1080,1082,1072>> }

ClusterNames == { JoinWithSpace(ps) : ps \in UpTo(ClusterParts, MaxClusterParts) }

\* "Магистратура 'Искусственный интеллект'"
AIProgramName == <<1052,1072,1075,1080,1089,1090,1088,1072,1090,1091,1088,1072,32,39,1048,1089,1082,1091,1089,1089,1090,1074,1077,1085,1085,1099,1081,32,1080,1085,1090,1077,1083,1083,1077,1082,1090,39>>

\* "Магистратура 'AI Product Management'"
ProductProgramName == <<1052,1072,1075,1080,1089,1090,1088,1072,1090,1091,1088,1072,32,39,65,73,32,80,114,111,100,117,99,116,32,77,97,110,97,103,101,109,101,110,116,39>>

\* a catalog of one program with one course, or, as in test_analyzer, of two
\* programs that hold the same courses
ClusterCatalogs ==
    { << Program(AIProgramName, << Course(n, 4, FIRST_SEMESTER, TYPE_REQUIRED) >>) >> :
        n \in ClusterNames }
    \cup { << Program(AIProgramName,
                      << Course(n, 4, FIRST_SEMESTER, TYPE_REQUIRED),
                         Course(m, 4, SECOND_SEMESTER, TYPE_ELECTIVE) >>),
              Program(ProductProgramName,
                      << Course(m, 4, SECOND_SEMESTER, TYPE_ELECTIVE),
                         Course(n, 4, FIRST_SEMESTER, TYPE_REQUIRED) >>) >> :
             n \in ClusterNames, m \in {MachineLearningName, EthicsName} }

ClusterTexts ==
    { Scenario1Text,
      \* "Я работаю в сфере бизнеса и менеджмента, есть опыт управления проектами"
      <<1071,32,1088,1072,1073,1086,1090,1072,1102,32,1074,32,1089,1092,1077,1088,1077,32,1073,1080,1079,1085,1077,1089,1072,32,1080,32,1084,1077,1085,1077,1076,1078,1084,1077,1085,1090,1072,44,32,1077,1089,1090,1100,32,1086,1087,1099,1090,32,1091,1087,1088,1072,1074,1083,1077,1085,1080,1103,32,1087,1088,1086,1077,1082,1090,1072,1084,1080>>,
      \* "У меня техническое образование и опыт в разработке, интересуюсь наукой"
      <<1059,32,1084,1077,1085,1103,32,1090,1077,1093,1085,1080,1095,1077,1089,1082,1086,1077,32,1086,1073,1088,1072,1079,1086,1074,1072,1085,1080,1077,32,1080,32,1086,1087,1099,1090,32,1074,32,1088,1072,1079,1088,1072,1073,1086,1090,1082,1077,44,32,1080,1085,1090,1077,1088,1077,1089,1091,1102,1089,1100,32,1085,1072,1091,1082,1086,1081>> }

InitCluster ==
    /\ \E progs \in ClusterCatalogs : __init__(progs)
    /\ NoCall
    /\ bot = None
    /\ parser = None
    /\ calls = None
    /\ locals = None

\* self._get_cluster_recommendations(prog, profile)
Call_get_cluster_recommendations(prog) ==
    /\ pc = "profiled"
    /\ program' = prog
    /\ returned' = _get_cluster_recommendations(course_clusters, prog, profile)
    /\ op' = "_get_cluster_recommendations"
    /\ pc' = "done"
    /\ UNCHANGED <<bot, parser, engine, argument, calls, locals, background, profile, course, frame,
                   recommendation, elective_courses, recommendations, user_type, report>>

\* The cluster index of every catalog and the method that reads it
ClusterNext ==
    \/ \E text \in ClusterTexts : Call_analyze_background(text)
    \/ \E n \in 1..Len(programs) : Call_get_cluster_recommendations(programs[n])

SpecCluster == InitCluster /\ [][ClusterNext]_vars

---------------------------------------------------------------------------
(* Engines built from other catalogs: the reports *)

\* a catalog has at most MaxPrograms programs
MaxPrograms == 2

\* "Магистратура 'Data Science'"
OtherProgramName == <<1052,1072,1075,1080,1089,1090,1088,1072,1090,1091,1088,1072,32,39,68,97,116,97,32,83,99,105,101,110,99,101,39>>

\* the courses of the third program
other_courses ==
    \* "Анализ данных"
    << Course(<<1040,1085,1072,1083,1080,1079,32,1076,1072,1085,1085,1099,1093>>, 4, SECOND_SEMESTER, TYPE_ELECTIVE),
       \* "Статистика и вероятности"
       Course(<<1057,1090,1072,1090,1080,1089,1090,1080,1082,1072,32,1080,32,1074,1077,1088,1086,1103,1090,1085,1086,1089,1090,1080>>, 4, FIRST_SEMESTER, TYPE_REQUIRED),
       \* "Базы данных"
       Course(<<1041,1072,1079,1099,32,1076,1072,1085,1085,1099,1093>>, 3, SECOND_SEMESTER, TYPE_REQUIRED),
       \* "Визуализация"
       Course(<<1042,1080,1079,1091,1072,1083,1080,1079,1072,1094,1080,1103>>, 2, SECOND_SEMESTER, TYPE_ELECTIVE) >>

RECURSIVE SumCredits(_)
SumCredits(courses) ==
    IF courses = <<>> THEN 0 ELSE Head(courses).credits + SumCredits(Tail(courses))

\* Program(...) as test_analyzer writes it (lines 1317-1345), with the name,
\* the courses, the cost and two of the flags left open
CatalogProgram(name, courses, cost, dormitory, accreditation) ==
    \* "https://abit.itmo.ru/program/master/ai"
    ProgramRecord(name, <<104,116,116,112,115,58,47,47,97,98,105,116,46,105,116,109,111,46,114,117,47,112,114,111,103,114,97,109,47,109,97,115,116,101,114,47,97,105>>,
                  \* "Создавайте AI-продукты и технологии, которые меняют мир."
                  <<1057,1086,1079,1076,1072,1074,1072,1081,1090,1077,32,65,73,45,1087,1088,1086,1076,1091,1082,1090,1099,32,1080,32,1090,1077,1093,1085,1086,1083,1086,1075,1080,1080,44,32,1082,1086,1090,1086,1088,1099,1077,32,1084,1077,1085,1103,1102,1090,32,1084,1080,1088,46>>,
                  4, courses, SumCredits(courses),
                  \* "Институт прикладных компьютерных наук"  "очная"  "русский"
                  <<1048,1085,1089,1090,1080,1090,1091,1090,32,1087,1088,1080,1082,1083,1072,1076,1085,1099,1093,32,1082,1086,1084,1087,1100,1102,1090,1077,1088,1085,1099,1093,32,1085,1072,1091,1082>>, <<1086,1095,1085,1072,1103>>, <<1088,1091,1089,1089,1082,1080,1081>>,
                  cost, dormitory, TRUE, accreditation)

CatalogPrograms ==
    \* "599 000 ₽"
    { CatalogProgram(AIProgramName, test_courses, <<53,57,57,32,48,48,48,32,8381>>, TRUE, TRUE),
      CatalogProgram(AIProgramName, test_courses, <<>>, FALSE, TRUE),
      \* "599 000 ₽"
      CatalogProgram(ProductProgramName, test_courses, <<53,57,57,32,48,48,48,32,8381>>, TRUE, TRUE),
      \* "599 000 ₽"
      CatalogProgram(ProductProgramName, test_courses, <<53,57,57,32,48,48,48,32,8381>>, TRUE, FALSE),
      \* "599 000 ₽"
      CatalogProgram(OtherProgramName, other_courses, <<53,57,57,32,48,48,48,32,8381>>, TRUE, TRUE),
      CatalogProgram(OtherProgramName, other_courses, <<>>, TRUE, TRUE) }

Catalogs == UpTo(CatalogPrograms, MaxPrograms)

\* program names and keywords asked for: one only the second kind of program
\* has, in capitals; one every program has; one no program has; the empty
\* string; the name of a course
Queries ==
    \* "AI"  "МАГИСТРАТУРА"  "робототехника"  "Data"  "вероятности"
    { <<65,73>>, <<1052,1040,1043,1048,1057,1058,1056,1040,1058,1059,1056,1040>>, <<1088,1086,1073,1086,1090,1086,1090,1077,1093,1085,1080,1082,1072>>, <<>>, <<68,97,116,97>>, <<1074,1077,1088,1086,1103,1090,1085,1086,1089,1090,1080>> }

\* " Java"
CatalogTexts == { GreetingText, Scenario1Text, <<32,74,97,118,97>> }

InitCatalog ==
    /\ \E progs \in Catalogs : __init__(progs)
    /\ NoCall
    /\ bot = None
    /\ parser = None
    /\ calls = None
    /\ locals = None

\* the part of a report call that is the same for every report method
Report(name, arg, value) ==
    /\ pc = "start"
    /\ op' = name
    /\ argument' = arg
    /\ returned' = value
    /\ pc' = "done"
    /\ UNCHANGED <<bot, parser, engine, calls, locals, background, profile, course, program, frame,
                   recommendation, elective_courses, recommendations, user_type, report>>

\* self.get_program_comparison()
Call_get_program_comparison ==
    Report("get_program_comparison", <<>>, get_program_comparison(programs))

\* self.get_detailed_program_info(program_name)
Call_get_detailed_program_info(program_name) ==
    Report("get_detailed_program_info", program_name,
           get_detailed_program_info(programs, program_name))

\* self.get_career_paths(program_name)
Call_get_career_paths(program_name) ==
    Report("get_career_paths", program_name, get_career_paths(programs, program_name))

\* self.get_admission_info(program_name)
Call_get_admission_info(program_name) ==
    Report("get_admission_info", program_name, get_admission_info(programs, program_name))

\* self.get_program_by_keywords(keywords)
Call_get_program_by_keywords(keywords) ==
    Report("get_program_by_keywords", keywords, get_program_by_keywords(programs, keywords))

\* The public methods on the engine of every catalog
CatalogNext ==
    \/ Call_get_program_comparison
    \/ \E q \in Queries : Call_get_detailed_program_info(q)
    \/ \E q \in Queries : Call_get_career_paths(q)
    \/ \E q \in Queries : Call_get_admission_info(q)
    \/ \E q \in Queries : Call_get_program_by_keywords(q)
    \/ \E text \in CatalogTexts : Call_get_course_recommendations(text)

SpecCatalog == InitCatalog /\ [][CatalogNext]_vars

---------------------------------------------------------------------------
(* The scorer on profiles with several skills in one category *)

\* texts whose profiles have two skills in a category
OverlapTexts ==
    \* "Python, Java, математика, статистика, менеджмент, продукт"
    { <<80,121,116,104,111,110,44,32,74,97,118,97,44,32,1084,1072,1090,1077,1084,1072,1090,1080,1082,1072,44,32,1089,1090,1072,1090,1080,1089,1090,1080,1082,1072,44,32,1084,1077,1085,1077,1076,1078,1084,1077,1085,1090,44,32,1087,1088,1086,1076,1091,1082,1090>>,
      \* "знаю html и Java, статистика"
      <<1079,1085,1072,1102,32,104,116,109,108,32,1080,32,74,97,118,97,44,32,1089,1090,1072,1090,1080,1089,1090,1080,1082,1072>>,
      Scenario1Text }

OverlapParts ==
    \* "программирование"  "веб"  "java"  "статистика"  "управление"
    { <<1087,1088,1086,1075,1088,1072,1084,1084,1080,1088,1086,1074,1072,1085,1080,1077>>, <<1074,1077,1073>>, <<106,97,118,97>>, <<1089,1090,1072,1090,1080,1089,1090,1080,1082,1072>>, <<1091,1087,1088,1072,1074,1083,1077,1085,1080,1077>>, EthicsName }

OverlapCourses ==
    { Course(JoinWithSpace(ps), 4, SECOND_SEMESTER, TYPE_ELECTIVE) :
        ps \in UpTo(OverlapParts, MaxNameParts) }

OverlapNext ==
    \/ \E text \in OverlapTexts : Call_analyze_background(text)
    \/ \E c \in OverlapCourses : Call_evaluate_course_intelligently(c)

SpecOverlap == Init /\ [][OverlapNext]_vars

---------------------------------------------------------------------------
(* The scorer called several times on one engine *)

\* how many times the scorer is called on one engine
MaxScorings == 2

RepeatCourses ==
    { Course(name, 4, SECOND_SEMESTER, TYPE_ELECTIVE) : name \in OverlapParts }
    \cup { test_courses[n] : n \in 1..3 }

\* the engine of test_programs; `calls` is the list of the calls that have
\* returned, each with its arguments and its result
InitRepeat ==
    /\ __init__(test_programs)
    /\ NoCall
    /\ bot = None
    /\ parser = None
    /\ calls = <<>>
    /\ locals = None

\* Mutant of Repeat_evaluate_course_intelligently: the scorer also files the
\* course under its cluster.
Repeat_evaluate_and_assign(c) ==
    /\ pc \in {"profiled", "done"}
    /\ Len(calls) < MaxScorings
    /\ course' = c
    /\ program' = programs[1]
    /\ frame' = EvaluationFrame(skill_mapping, c, profile, programs[1])
    /\ recommendation' = _evaluate_course_intelligently(skill_mapping, c, profile, programs[1])
    /\ calls' = Append(calls, [ op      |-> "_evaluate_course_intelligently",
                                course  |-> c,
                                profile |-> profile,
                                result  |-> recommendation' ])
    /\ course_clusters' = _assign_course_to_cluster(course_clusters, c)
    /\ op' = "_evaluate_course_intelligently"
    /\ pc' = "done"
    /\ UNCHANGED <<bot, parser, programs, course_index, skill_mapping, argument, returned, locals,
                   background, profile, elective_courses, recommendations, user_type, report>>

\* self._evaluate_course_intelligently(c, profile, programs[0]), any number of
\* times after the profile was extracted (lines 735-910: the method assigns
\* to its locals only)
Repeat_evaluate_course_intelligently(c) ==
    /\ pc \in {"profiled", "done"}
    /\ Len(calls) < MaxScorings
    /\ course' = c
    /\ program' = programs[1]
    /\ frame' = EvaluationFrame(skill_mapping, c, profile, programs[1])
    /\ recommendation' = _evaluate_course_intelligently(skill_mapping, c, profile, programs[1])
    /\ calls' = Append(calls, [ op      |-> "_evaluate_course_intelligently",
                                course  |-> c,
                                profile |-> profile,
                                result  |-> recommendation' ])
    /\ op' = "_evaluate_course_intelligently"
    /\ pc' = "done"
    /\ UNCHANGED <<bot, parser, engine, argument, returned, locals, background, profile, elective_courses,
                   recommendations, user_type, report>>

RepeatNext ==
    \/ \E text \in OverlapTexts : Call_analyze_background(text)
    \/ \E c \in RepeatCourses : Repeat_evaluate_course_intelligently(c)

SpecRepeat == InitRepeat /\ [][RepeatNext]_vars

---------------------------------------------------------------------------
(* Several callers on one engine *)

\* the number of callers that share the engine
MaxCallers == 2

Callers == 1..MaxCallers

SharedCatalogs ==
    { << CatalogProgram(AIProgramName, test_courses, <<>>, FALSE, TRUE),
         \* "599 000 ₽"
         CatalogProgram(ProductProgramName, test_courses, <<53,57,57,32,48,48,48,32,8381>>, TRUE, TRUE) >>,
      \* "599 000 ₽"
      << CatalogProgram(OtherProgramName, other_courses, <<53,57,57,32,48,48,48,32,8381>>, TRUE, TRUE),
         \* "599 000 ₽"
         CatalogProgram(ProductProgramName, test_courses, <<53,57,57,32,48,48,48,32,8381>>, TRUE, FALSE) >> }

Request(name, arg) == [op |-> name, argument |-> arg]

\* the calls a caller can make: every public method; the by-name methods
\* with a name of no program, of the second program and of the first program
SharedRequests ==
    { Request("get_program_comparison", <<>>),
      \* "робототехника"
      Request("get_detailed_program_info", <<1088,1086,1073,1086,1090,1086,1090,1077,1093,1085,1080,1082,1072>>),
      \* "product"
      Request("get_career_paths", <<112,114,111,100,117,99,116>>),
      \* "МАГИСТРАТУРА"
      Request("get_admission_info", <<1052,1040,1043,1048,1057,1058,1056,1040,1058,1059,1056,1040>>),
      \* "Data"
      Request("get_program_by_keywords", <<68,97,116,97>>),
      Request("get_course_recommendations", Scenario1Text) }

\* the methods that begin with _find_program_by_name
ByName == {"get_detailed_program_info", "get_career_paths", "get_admission_info"}

\* the locals of a caller that is in no call
Idle == [op |-> "none", argument |-> <<>>, entered |-> 0, at |-> 0, found |-> <<>>,
         user_type |-> "none"]

\* the engine of a catalog; `locals` holds the locals of each caller's call,
\* `calls` the calls that have returned
InitShared ==
    /\ \E progs \in SharedCatalogs : __init__(progs)
    /\ NoCall
    /\ bot = None
    /\ parser = None
    /\ calls = <<>>
    /\ locals = [caller \in Callers |-> Idle]

\* the caller has made its call, or is in it
HasEntered(caller) ==
    \/ locals[caller].op # "none"
    \/ \E n \in 1..Len(calls) : calls[n].caller = caller

\* a caller enters a public method: the statements before its loop over
\* self.programs (for get_course_recommendations lines 354-369).  Every
\* caller makes one call, and the callers are numbered in the order in which
\* they enter.
Enter(caller, request) ==
    /\ ~HasEntered(caller)
    /\ \A earlier \in 1..(caller - 1) : HasEntered(earlier)
    /\ locals' = [locals EXCEPT ![caller] =
                     [ op        |-> request.op,
                       argument  |-> request.argument,
                       entered   |-> Len(calls),
                       at        |-> 0,
                       found     |-> <<>>,
                       user_type |-> IF request.op = "get_course_recommendations"
                                     THEN UserType(_analyze_background(request.argument))
                                     ELSE "none" ] ]
    /\ UNCHANGED <<bot, parser, engine, calls, pc, op, background, profile, course, program, frame,
                   recommendation, elective_courses, recommendations, user_type, report,
                   argument, returned>>

\* the body of `for program in self.programs` of each public method, for one
\* program: what the method has collected after it
LoopBody(l, prog) ==
    CASE l.op = "get_program_comparison" -> Append(l.found, ComparisonParagraph(prog))
      [] l.op \in ByName -> _find_program_by_name(<<prog>>, l.argument)
      [] l.op = "get_program_by_keywords" ->
             l.found \o get_program_by_keywords(<<prog>>, l.argument)
      [] l.op = "get_course_recommendations" -> l.found \o VerdictLines(prog, l.user_type)

\* the loop of _find_program_by_name returns at the first match
LoopDone(l, progs) ==
    \/ l.at = Len(progs)
    \/ l.op \in ByName /\ l.found # <<>>

\* Mutant of Iterate: the loop takes its program off the engine's catalog
\* (self.programs.pop(0)).
IterateConsuming(caller) ==
    /\ locals[caller].op # "none"
    /\ programs # <<>>
    /\ ~(locals[caller].op \in ByName /\ locals[caller].found # <<>>)
    /\ locals' = [locals EXCEPT ![caller].at = @ + 1,
                                ![caller].found = LoopBody(locals[caller], Head(programs))]
    /\ programs' = Tail(programs)
    /\ UNCHANGED <<bot, parser, course_index, course_clusters, skill_mapping, calls, pc, op, background,
                   profile, course, program, frame, recommendation, elective_courses,
                   recommendations, user_type, report, argument, returned>>

\* one iteration of a caller's loop over self.programs; the callers' loops
\* interleave iteration by iteration
Iterate(caller) ==
    /\ locals[caller].op # "none"
    /\ ~LoopDone(locals[caller], programs)
    /\ locals' = [locals EXCEPT ![caller].at = @ + 1,
                                ![caller].found =
                                    LoopBody(locals[caller], programs[locals[caller].at + 1])]
    /\ UNCHANGED <<bot, parser, engine, calls, pc, op, background, profile, course, program, frame,
                   recommendation, elective_courses, recommendations, user_type, report,
                   argument, returned>>

\* the statements after the loop: what the method returns
ReturnValue(l) ==
    CASE l.op = "get_detailed_program_info" -> get_detailed_program_info(l.found, l.argument)
      [] l.op = "get_career_paths" -> get_career_paths(l.found, l.argument)
      [] l.op = "get_admission_info" -> get_admission_info(l.found, l.argument)
      [] OTHER -> l.found

\* a caller's call returns
Return(caller) ==
    /\ locals[caller].op # "none"
    /\ LoopDone(locals[caller], programs)
    /\ calls' = Append(calls, [ caller   |-> caller,
                                op       |-> locals[caller].op,
                                argument |-> locals[caller].argument,
                                entered  |-> locals[caller].entered,
                                result   |-> ReturnValue(locals[caller]) ])
    /\ locals' = [locals EXCEPT ![caller] = Idle]
    /\ UNCHANGED <<bot, parser, engine, pc, op, background, profile, course, program, frame,
                   recommendation, elective_courses, recommendations, user_type, report,
                   argument, returned>>

SharedNext ==
    \E caller \in Callers :
        \/ \E request \in SharedRequests : Enter(caller, request)
        \/ Iterate(caller)
        \/ Return(caller)

SpecShared == InitShared /\ [][SharedNext]_vars

---------------------------------------------------------------------------
(* The profile extractor on texts about education, time and experience *)

\* a text is made of at most MaxFieldPhrases phrases
MaxFieldPhrases == 2

\* a word of every education level, of both kinds of time availability and
\* of the work experience, and a phrase with none
FieldPhrases ==
    \* "Бакалавр, "  "магистр "  "Аспирант. "  "инженерное образование, "
    { <<1041,1072,1082,1072,1083,1072,1074,1088,44,32>>, <<1084,1072,1075,1080,1089,1090,1088,32>>, <<1040,1089,1087,1080,1088,1072,1085,1090,46,32>>, <<1080,1085,1078,1077,1085,1077,1088,1085,1086,1077,32,1086,1073,1088,1072,1079,1086,1074,1072,1085,1080,1077,44,32>>,
      \* "очная форма, "  "вечерняя форма, "  "заочная "  "стаж 3 года, "
      <<1086,1095,1085,1072,1103,32,1092,1086,1088,1084,1072,44,32>>, <<1074,1077,1095,1077,1088,1085,1103,1103,32,1092,1086,1088,1084,1072,44,32>>, <<1079,1072,1086,1095,1085,1072,1103,32>>, <<1089,1090,1072,1078,32,51,32,1075,1086,1076,1072,44,32>>,
      \* "работал аналитиком "
      <<1088,1072,1073,1086,1090,1072,1083,32,1072,1085,1072,1083,1080,1090,1080,1082,1086,1084,32>>, GreetingText }

FieldTexts == { Concat(ps) : ps \in UpTo(FieldPhrases, MaxFieldPhrases) }

FieldsNext ==
    \/ \E text \in FieldTexts : Call_analyze_background(text)
    \/ \E text \in FieldTexts : Call_get_course_recommendations(text)

SpecFields == Init /\ [][FieldsNext]_vars

---------------------------------------------------------------------------
(* The data-acquisition layer (web_parser.py): the pages and their parsing *)

\* A fetched page is modelled by what the parser reads from it: `html` is the
\* string fetch_page returned ('' is the empty sequence), `descriptions` and
\* `institutes` are the texts of the elements the selectors of
\* _extract_description and _extract_institute find, in selector order, and
\* `cards` are the header and value texts of the information cards of the
\* first selector of _extract_program_info that finds any.
Page(html, descriptions, institutes, cards) ==
    [html |-> html, descriptions |-> descriptions, institutes |-> institutes, cards |-> cards]

\* fetch_page's '' (lines 79, 90, 93, 94)
EMPTY_PAGE == Page(<<>>, <<>>, <<>>, <<>>)

\* a page none of the selectors matches
\* "<html><body>ITMO</body></html>"
PLAIN_PAGE == Page(<<60,104,116,109,108,62,60,98,111,100,121,62,73,84,77,79,60,47,98,111,100,121,62,60,47,104,116,109,108,62>>, <<>>, <<>>, <<>>)

Card(header_text, value_text) == [header_text |-> header_text, value_text |-> value_text]

\* a page with a short and a long description, an institute, and cards
RICH_PAGE ==
    \* "<html><body><span class="description">AI</span></body></html>"
    Page(<<60,104,116,109,108,62,60,98,111,100,121,62,60,115,112,97,110,32,99,108,97,115,115,61,34,100,101,115,99,114,105,112,116,105,111,110,34,62,65,73,60,47,115,112,97,110,62,60,47,98,111,100,121,62,60,47,104,116,109,108,62>>,
         \* "AI"  "Создавайте AI-продукты и технологии, которые меняют мир."
         << <<65,73>>, <<1057,1086,1079,1076,1072,1074,1072,1081,1090,1077,32,65,73,45,1087,1088,1086,1076,1091,1082,1090,1099,32,1080,32,1090,1077,1093,1085,1086,1083,1086,1075,1080,1080,44,32,1082,1086,1090,1086,1088,1099,1077,32,1084,1077,1085,1103,1102,1090,32,1084,1080,1088,46>> >>,
         \* "ИТМО"  "Институт прикладных компьютерных наук"
         << <<1048,1058,1052,1054>>, <<1048,1085,1089,1090,1080,1090,1091,1090,32,1087,1088,1080,1082,1083,1072,1076,1085,1099,1093,32,1082,1086,1084,1087,1100,1102,1090,1077,1088,1085,1099,1093,32,1085,1072,1091,1082>> >>,
         \* "форма обучения"  "очно-заочная"
         << Card(<<1092,1086,1088,1084,1072,32,1086,1073,1091,1095,1077,1085,1080,1103>>, <<1086,1095,1085,1086,45,1079,1072,1086,1095,1085,1072,1103>>),
            \* "длительность"  "1 год"
            Card(<<1076,1083,1080,1090,1077,1083,1100,1085,1086,1089,1090,1100>>, <<49,32,1075,1086,1076>>),
            \* "стоимость контрактного обучения (год)"  "599 000 ₽"
            Card(<<1089,1090,1086,1080,1084,1086,1089,1090,1100,32,1082,1086,1085,1090,1088,1072,1082,1090,1085,1086,1075,1086,32,1086,1073,1091,1095,1077,1085,1080,1103,32,40,1075,1086,1076,41>>, <<53,57,57,32,48,48,48,32,8381>>),
            \* "общежитие"  "Да"
            Card(<<1086,1073,1097,1077,1078,1080,1090,1080,1077>>, <<1044,1072>>),
            \* "гос. аккредитация"  "Есть"
            Card(<<1075,1086,1089,46,32,1072,1082,1082,1088,1077,1076,1080,1090,1072,1094,1080,1103>>, <<1045,1089,1090,1100>>),
            \* "язык обучения"  "английский"
            Card(<<1103,1079,1099,1082,32,1086,1073,1091,1095,1077,1085,1080,1103>>, <<1072,1085,1075,1083,1080,1081,1089,1082,1080,1081>>),
            \* "военный учебный центр"  "нет"
            Card(<<1074,1086,1077,1085,1085,1099,1081,32,1091,1095,1077,1073,1085,1099,1081,32,1094,1077,1085,1090,1088>>, <<1085,1077,1090>>) >>)

\* line 51
MIN_DESCRIPTION_LENGTH == 10

\* line 52
MIN_INSTITUTE_LENGTH == 3

\* the first text longer than the minimum, else the default
RECURSIVE FirstLongerThan(_, _, _)
FirstLongerThan(texts, minimum, default) ==
    IF texts = <<>> THEN default
    ELSE IF Len(Head(texts)) > minimum THEN Head(texts)
    ELSE FirstLongerThan(Tail(texts), minimum, default)

\* lines 165-187
_extract_description(soup) ==
    FirstLongerThan(soup.descriptions, MIN_DESCRIPTION_LENGTH,
        \* "Программа магистратуры в области искусственного интеллекта и технологий"
        <<1055,1088,1086,1075,1088,1072,1084,1084,1072,32,1084,1072,1075,1080,1089,1090,1088,1072,1090,1091,1088,1099,32,1074,32,1086,1073,1083,1072,1089,1090,1080,32,1080,1089,1082,1091,1089,1089,1090,1074,1077,1085,1085,1086,1075,1086,32,1080,1085,1090,1077,1083,1083,1077,1082,1090,1072,32,1080,32,1090,1077,1093,1085,1086,1083,1086,1075,1080,1081>>)

\* lines 189-210
_extract_institute(soup) ==
    FirstLongerThan(soup.institutes, MIN_INSTITUTE_LENGTH,
        \* "Институт прикладных компьютерных наук"
        <<1048,1085,1089,1090,1080,1090,1091,1090,32,1087,1088,1080,1082,1083,1072,1076,1085,1099,1093,32,1082,1086,1084,1087,1100,1102,1090,1077,1088,1085,1099,1093,32,1085,1072,1091,1082>>)

\* 'да' in value_text.lower() or 'есть' in value_text.lower()
SaysYes(value_text) ==
    \* "да"  "есть"
    Contains(<<1076,1072>>, Lower(value_text)) \/ Contains(<<1077,1089,1090,1100>>, Lower(value_text))

\* lines 245-279: the card's effect on info
_parse_info_card(card, info) ==
    LET header_text == Lower(card.header_text)
        value_text == card.value_text
    \* "форма обучения"  "форма"
    IN  IF Contains(<<1092,1086,1088,1084,1072,32,1086,1073,1091,1095,1077,1085,1080,1103>>, header_text) \/ Contains(<<1092,1086,1088,1084,1072>>, header_text)
        THEN [info EXCEPT !.form = value_text]
        \* "длительность"  "срок"
        ELSE IF Contains(<<1076,1083,1080,1090,1077,1083,1100,1085,1086,1089,1090,1100>>, header_text) \/ Contains(<<1089,1088,1086,1082>>, header_text)
        \* "2 года"  "4 семестра"
        THEN IF Contains(<<50,32,1075,1086,1076,1072>>, value_text) \/ Contains(<<52,32,1089,1077,1084,1077,1089,1090,1088,1072>>, value_text)
             THEN [info EXCEPT !.duration = 4]
             \* "1 год"  "2 семестра"
             ELSE IF Contains(<<49,32,1075,1086,1076>>, value_text) \/ Contains(<<50,32,1089,1077,1084,1077,1089,1090,1088,1072>>, value_text)
             THEN [info EXCEPT !.duration = 2]
             ELSE info
        \* "язык обучения"  "язык"
        ELSE IF Contains(<<1103,1079,1099,1082,32,1086,1073,1091,1095,1077,1085,1080,1103>>, header_text) \/ Contains(<<1103,1079,1099,1082>>, header_text)
        THEN [info EXCEPT !.language = value_text]
        \* "стоимость"  "цена"
        ELSE IF Contains(<<1089,1090,1086,1080,1084,1086,1089,1090,1100>>, header_text) \/ Contains(<<1094,1077,1085,1072>>, header_text)
        THEN [info EXCEPT !.cost = value_text]
        \* "общежитие"
        ELSE IF Contains(<<1086,1073,1097,1077,1078,1080,1090,1080,1077>>, header_text)
        THEN [info EXCEPT !.dormitory = SaysYes(value_text)]
        \* "военный учебный центр"  "вунц"
        ELSE IF Contains(<<1074,1086,1077,1085,1085,1099,1081,32,1091,1095,1077,1073,1085,1099,1081,32,1094,1077,1085,1090,1088>>, header_text) \/ Contains(<<1074,1091,1085,1094>>, header_text)
        THEN [info EXCEPT !.military_center = SaysYes(value_text)]
        \* "гос. аккредитация"  "аккредитация"
        ELSE IF Contains(<<1075,1086,1089,46,32,1072,1082,1082,1088,1077,1076,1080,1090,1072,1094,1080,1103>>, header_text) \/ Contains(<<1072,1082,1082,1088,1077,1076,1080,1090,1072,1094,1080,1103>>, header_text)
        THEN [info EXCEPT !.accreditation = SaysYes(value_text)]
        ELSE info

RECURSIVE ParseCards(_, _)
ParseCards(cards, info) ==
    IF cards = <<>> THEN info
    ELSE ParseCards(Tail(cards), _parse_info_card(Head(cards), info))

\* lines 212-243; cost None is <<>>
_extract_program_info(soup) ==
    ParseCards(soup.cards,
               \* "очная"  "русский"
               [form |-> <<1086,1095,1085,1072,1103>>, language |-> <<1088,1091,1089,1089,1082,1080,1081>>, duration |-> 4, cost |-> <<>>,
                dormitory |-> FALSE, military_center |-> FALSE, accreditation |-> FALSE])

\* lines 303-325
_create_ai_courses ==
    \* "Введение в искусственный интеллект"
    << Course(<<1042,1074,1077,1076,1077,1085,1080,1077,32,1074,32,1080,1089,1082,1091,1089,1089,1090,1074,1077,1085,1085,1099,1081,32,1080,1085,1090,1077,1083,1083,1077,1082,1090>>, 3, 1, TYPE_REQUIRED),
       \* "Математические основы машинного обучения"
       Course(<<1052,1072,1090,1077,1084,1072,1090,1080,1095,1077,1089,1082,1080,1077,32,1086,1089,1085,1086,1074,1099,32,1084,1072,1096,1080,1085,1085,1086,1075,1086,32,1086,1073,1091,1095,1077,1085,1080,1103>>, 4, 1, TYPE_REQUIRED),
       \* "Программирование на Python для AI"
       Course(<<1055,1088,1086,1075,1088,1072,1084,1084,1080,1088,1086,1074,1072,1085,1080,1077,32,1085,1072,32,80,121,116,104,111,110,32,1076,1083,1103,32,65,73>>, 4, 1, TYPE_REQUIRED),
       \* "Статистика и вероятности"
       Course(<<1057,1090,1072,1090,1080,1089,1090,1080,1082,1072,32,1080,32,1074,1077,1088,1086,1103,1090,1085,1086,1089,1090,1080>>, 3, 1, TYPE_REQUIRED),
       \* "Машинное обучение"
       Course(<<1052,1072,1096,1080,1085,1085,1086,1077,32,1086,1073,1091,1095,1077,1085,1080,1077>>, 6, 2, TYPE_REQUIRED),
       \* "Глубокое обучение"
       Course(<<1043,1083,1091,1073,1086,1082,1086,1077,32,1086,1073,1091,1095,1077,1085,1080,1077>>, 6, 2, TYPE_REQUIRED),
       \* "Обработка естественного языка"
       Course(<<1054,1073,1088,1072,1073,1086,1090,1082,1072,32,1077,1089,1090,1077,1089,1090,1074,1077,1085,1085,1086,1075,1086,32,1103,1079,1099,1082,1072>>, 4, 2, TYPE_ELECTIVE),
       \* "Компьютерное зрение"
       Course(<<1050,1086,1084,1087,1100,1102,1090,1077,1088,1085,1086,1077,32,1079,1088,1077,1085,1080,1077>>, 4, 2, TYPE_ELECTIVE),
       \* "Анализ данных"
       Course(<<1040,1085,1072,1083,1080,1079,32,1076,1072,1085,1085,1099,1093>>, 4, 2, TYPE_ELECTIVE),
       \* "Нейронные сети и архитектуры"
       Course(<<1053,1077,1081,1088,1086,1085,1085,1099,1077,32,1089,1077,1090,1080,32,1080,32,1072,1088,1093,1080,1090,1077,1082,1090,1091,1088,1099>>, 6, 3, TYPE_REQUIRED),
       \* "Этика искусственного интеллекта"
       Course(<<1069,1090,1080,1082,1072,32,1080,1089,1082,1091,1089,1089,1090,1074,1077,1085,1085,1086,1075,1086,32,1080,1085,1090,1077,1083,1083,1077,1082,1090,1072>>, 2, 3, TYPE_OPTIONAL),
       \* "Проектная работа"
       Course(<<1055,1088,1086,1077,1082,1090,1085,1072,1103,32,1088,1072,1073,1086,1090,1072>>, 8, 3, TYPE_REQUIRED),
       \* "Научно-исследовательский семинар"
       Course(<<1053,1072,1091,1095,1085,1086,45,1080,1089,1089,1083,1077,1076,1086,1074,1072,1090,1077,1083,1100,1089,1082,1080,1081,32,1089,1077,1084,1080,1085,1072,1088>>, 2, 3, TYPE_OPTIONAL),
       \* "Магистерская диссертация"
       Course(<<1052,1072,1075,1080,1089,1090,1077,1088,1089,1082,1072,1103,32,1076,1080,1089,1089,1077,1088,1090,1072,1094,1080,1103>>, 12, 4, TYPE_REQUIRED),
       \* "Защита выпускной работы"
       Course(<<1047,1072,1097,1080,1090,1072,32,1074,1099,1087,1091,1089,1082,1085,1086,1081,32,1088,1072,1073,1086,1090,1099>>, 2, 4, TYPE_REQUIRED) >>

\* lines 327-349
_create_ai_product_courses ==
    \* "Введение в AI Product Management"
    << Course(<<1042,1074,1077,1076,1077,1085,1080,1077,32,1074,32,65,73,32,80,114,111,100,117,99,116,32,77,97,110,97,103,101,109,101,110,116>>, 3, 1, TYPE_REQUIRED),
       \* "Основы машинного обучения для продуктов"
       Course(<<1054,1089,1085,1086,1074,1099,32,1084,1072,1096,1080,1085,1085,1086,1075,1086,32,1086,1073,1091,1095,1077,1085,1080,1103,32,1076,1083,1103,32,1087,1088,1086,1076,1091,1082,1090,1086,1074>>, 4, 1, TYPE_REQUIRED),
       \* "Управление продуктами"
       Course(<<1059,1087,1088,1072,1074,1083,1077,1085,1080,1077,32,1087,1088,1086,1076,1091,1082,1090,1072,1084,1080>>, 4, 1, TYPE_REQUIRED),
       \* "Аналитика данных для бизнеса"
       Course(<<1040,1085,1072,1083,1080,1090,1080,1082,1072,32,1076,1072,1085,1085,1099,1093,32,1076,1083,1103,32,1073,1080,1079,1085,1077,1089,1072>>, 3, 1, TYPE_REQUIRED),
       \* "AI в бизнесе"
       Course(<<65,73,32,1074,32,1073,1080,1079,1085,1077,1089,1077>>, 6, 2, TYPE_REQUIRED),
       \* "Product Strategy"
       Course(<<80,114,111,100,117,99,116,32,83,116,114,97,116,101,103,121>>, 4, 2, TYPE_REQUIRED),
       \* "User Experience Design"
       Course(<<85,115,101,114,32,69,120,112,101,114,105,101,110,99,101,32,68,101,115,105,103,110>>, 4, 2, TYPE_ELECTIVE),
       \* "Метрики и KPI для AI продуктов"
       Course(<<1052,1077,1090,1088,1080,1082,1080,32,1080,32,75,80,73,32,1076,1083,1103,32,65,73,32,1087,1088,1086,1076,1091,1082,1090,1086,1074>>, 4, 2, TYPE_ELECTIVE),
       \* "Agile и Scrum для AI проектов"
       Course(<<65,103,105,108,101,32,1080,32,83,99,114,117,109,32,1076,1083,1103,32,65,73,32,1087,1088,1086,1077,1082,1090,1086,1074>>, 3, 2, TYPE_ELECTIVE),
       \* "AI Product Development"
       Course(<<65,73,32,80,114,111,100,117,99,116,32,68,101,118,101,108,111,112,109,101,110,116>>, 6, 3, TYPE_REQUIRED),
       \* "Бизнес-модели для AI продуктов"
       Course(<<1041,1080,1079,1085,1077,1089,45,1084,1086,1076,1077,1083,1080,32,1076,1083,1103,32,65,73,32,1087,1088,1086,1076,1091,1082,1090,1086,1074>>, 3, 3, TYPE_REQUIRED),
       \* "Проектная работа"
       Course(<<1055,1088,1086,1077,1082,1090,1085,1072,1103,32,1088,1072,1073,1086,1090,1072>>, 8, 3, TYPE_REQUIRED),
       \* "Инновации в AI"
       Course(<<1048,1085,1085,1086,1074,1072,1094,1080,1080,32,1074,32,65,73>>, 2, 3, TYPE_OPTIONAL),
       \* "Магистерская диссертация"
       Course(<<1052,1072,1075,1080,1089,1090,1077,1088,1089,1082,1072,1103,32,1076,1080,1089,1089,1077,1088,1090,1072,1094,1080,1103>>, 12, 4, TYPE_REQUIRED),
       \* "Защита выпускной работы"
       Course(<<1047,1072,1097,1080,1090,1072,32,1074,1099,1087,1091,1089,1082,1085,1086,1081,32,1088,1072,1073,1086,1090,1099>>, 2, 4, TYPE_REQUIRED) >>

\* lines 281-301: the course list depends on the program type only (the
\* parse methods pass 'ai' or 'ai_product')
_parse_courses_from_html(soup, program_type) ==
    IF program_type = "ai" THEN _create_ai_courses ELSE _create_ai_product_courses

\* the Program both parse methods build from a name, a url and the soup
ParsedProgram(program_name, url, soup, program_type) ==
    LET program_info == _extract_program_info(soup)
        courses == _parse_courses_from_html(soup, program_type)
    IN  ProgramRecord(program_name, url, _extract_description(soup), program_info.duration,
                      courses, SumCredits(courses), _extract_institute(soup),
                      program_info.form, program_info.language, program_info.cost,
                      program_info.dormitory, program_info.military_center,
                      program_info.accreditation)

\* lines 96-129
parse_ai_program(html) ==
    \* "https://abit.itmo.ru/program/master/ai"
    ParsedProgram(AIProgramName, <<104,116,116,112,115,58,47,47,97,98,105,116,46,105,116,109,111,46,114,117,47,112,114,111,103,114,97,109,47,109,97,115,116,101,114,47,97,105>>, html, "ai")

\* lines 131-163
parse_ai_product_program(html) ==
    \* "https://abit.itmo.ru/program/master/ai_product"
    ParsedProgram(ProductProgramName, <<104,116,116,112,115,58,47,47,97,98,105,116,46,105,116,109,111,46,114,117,47,112,114,111,103,114,97,109,47,109,97,115,116,101,114,47,97,105,95,112,114,111,100,117,99,116>>,
                  html, "ai_product")

---------------------------------------------------------------------------
(* fetch_page: the calls made on one parser *)

\* line 61
max_retries == 3

\* one parser makes at most MaxFetches calls of fetch_page
MaxFetches == 2

URLS == { "https://abit.itmo.ru/program/master/ai",
          "https://abit.itmo.ru/program/master/ai_product" }

\* what a GET can answer with: a page, also one with an empty text
ServerPages == { EMPTY_PAGE, PLAIN_PAGE, RICH_PAGE }

\* what the `async with self.session.get(url)` block (lines 80-84) ends
\* with: the text of the response, an aiohttp.ClientError (raised by get, by
\* raise_for_status or by text), or any other Exception (a timeout, a closed
\* session, a decoding error)
GetOutcomes ==
    { [kind |-> "text", content |-> page] : page \in ServerPages }
    \cup { [kind |-> "ClientError", content |-> EMPTY_PAGE],
           [kind |-> "Exception", content |-> EMPTY_PAGE] }

\* the locals of a call of fetch_page: `log` has the outcome of every GET
\* made, `sleeps` the delays slept, `raised` is set if an exception leaves
\* the function
FetchFrame(url, attempt, log, sleeps) ==
    [url |-> url, attempt |-> attempt, log |-> log, sleeps |-> sleeps, raised |-> FALSE]

\* ITMOWebParser(): lines 54-61
InitFetch ==
    /\ __init__(test_programs)
    /\ NoCall
    /\ bot = None
    /\ parser = [session |-> "None"]
    /\ calls = <<>>
    /\ locals = FetchFrame("", 0, <<>>, <<>>)

\* no call is running
FetchIdle == pc \in {"start", "returned", "raised"}

\* lines 63-66
__aenter__ ==
    /\ FetchIdle
    /\ parser.session = "None"
    /\ parser' = [parser EXCEPT !.session = "ClientSession"]
    /\ UNCHANGED <<bot, engine, pc, op, background, profile, course, program, frame,
                   recommendation, elective_courses, recommendations, user_type, report,
                   argument, returned, calls, locals>>

\* the call has ended with `value`
FetchReturn(l, value) ==
    /\ pc' = "returned"
    /\ returned' = value
    /\ locals' = l
    /\ calls' = Append(calls, [url |-> l.url, log |-> l.log, sleeps |-> l.sleeps,
                               session |-> parser.session, raised |-> FALSE,
                               returned |-> value])

\* an exception leaves the call
FetchRaise(l) ==
    /\ pc' = "raised"
    /\ returned' = EMPTY_PAGE
    /\ locals' = [l EXCEPT !.raised = TRUE]
    /\ calls' = Append(calls, [url |-> l.url, log |-> l.log, sleeps |-> l.sleeps,
                               session |-> parser.session, raised |-> TRUE,
                               returned |-> EMPTY_PAGE])

\* lines 76-80: the top of an iteration, up to the GET
Attempt(l) ==
    IF parser.session = "None" THEN FetchReturn(l, EMPTY_PAGE)
    ELSE /\ pc' = "get"
         /\ locals' = l
         /\ UNCHANGED <<returned, calls>>

\* fetch_page(url) is called: the first iteration
Call_fetch_page(url) ==
    /\ FetchIdle
    /\ Len(calls) < MaxFetches
    /\ op' = "fetch_page"
    /\ argument' = url
    /\ Attempt(FetchFrame(url, 0, <<>>, <<>>))
    /\ UNCHANGED <<bot, parser, engine, background, profile, course, program, frame,
                   recommendation, elective_courses, recommendations, user_type, report>>

\* Mutant of Respond: only client errors are caught.
RespondClientErrorsOnly(outcome) ==
    /\ pc = "get"
    /\ LET l == [locals EXCEPT !.log = Append(@, outcome)]
       IN  IF outcome.kind = "text" THEN FetchReturn(l, outcome.content)
           ELSE IF outcome.kind = "ClientError"
           THEN IF l.attempt = max_retries - 1 THEN FetchReturn(l, EMPTY_PAGE)
                ELSE /\ pc' = "sleep"
                     /\ locals' = [l EXCEPT !.sleeps = Append(@, 1 * (l.attempt + 1))]
                     /\ UNCHANGED <<returned, calls>>
           ELSE FetchRaise(l)
    /\ UNCHANGED <<bot, parser, engine, op, background, profile, course, program, frame,
                   recommendation, elective_courses, recommendations, user_type, report,
                   argument>>

\* lines 80-93: the GET ends; the text is returned (84), a client error is
\* retried after a sleep unless this was the last attempt (85-90), any other
\* exception ends the call with '' (91-93)
Respond(outcome) ==
    /\ pc = "get"
    /\ LET l == [locals EXCEPT !.log = Append(@, outcome)]
       IN  IF outcome.kind = "text" THEN FetchReturn(l, outcome.content)
           ELSE IF outcome.kind = "ClientError"
           THEN IF l.attempt = max_retries - 1 THEN FetchReturn(l, EMPTY_PAGE)
                ELSE /\ pc' = "sleep"
                     /\ locals' = [l EXCEPT !.sleeps = Append(@, 1 * (l.attempt + 1))]
                     /\ UNCHANGED <<returned, calls>>
           ELSE FetchReturn(l, EMPTY_PAGE)
    /\ UNCHANGED <<bot, parser, engine, op, background, profile, course, program, frame,
                   recommendation, elective_courses, recommendations, user_type, report,
                   argument>>

\* line 90 ends: the next iteration of `for attempt in range(self.max_retries)`,
\* or line 94 when the range is used up
Wake ==
    /\ pc = "sleep"
    /\ IF locals.attempt + 1 < max_retries
       THEN Attempt([locals EXCEPT !.attempt = @ + 1])
       ELSE FetchReturn(locals, EMPTY_PAGE)
    /\ UNCHANGED <<bot, parser, engine, op, background, profile, course, program, frame,
                   recommendation, elective_courses, recommendations, user_type, report,
                   argument>>

FetchNext ==
    \/ __aenter__
    \/ \E url \in URLS : Call_fetch_page(url)
    \/ \E outcome \in GetOutcomes : Respond(outcome)
    \/ Wake

SpecFetch == InitFetch /\ [][FetchNext]_vars

\* every GET ends (ClientTimeout(total=30), line 64) and every sleep ends
SpecFetchLive ==
    InitFetch /\ [][FetchNext]_vars
    /\ WF_vars(\E outcome \in GetOutcomes : Respond(outcome)) /\ WF_vars(Wake)

---------------------------------------------------------------------------
(* The chat front-end (telegram_bot.py): the bot and its handlers *)

\* the list object `[ai_program, ai_product_program]` of line 73; `id` tells
\* the lists of different loads apart (it is the number of the handler that
\* made the list)
List(id, items) == [id |-> id, items |-> items]

\* ProgramAnalyzer(programs): the engine of the list it was given.  Its other
\* attributes are set once, by __init__(progs.items), and are functions of
\* that list, so the engine is told by the list.
ProgramAnalyzer(progs) == [programs |-> progs]

\* a state dict of user_states is modelled by its 'action' entry: {} has none
NO_ACTION == "None"

WAITING_BACKGROUND == "waiting_background"

\* ITMOTelegramBot(token), lines 39-48: programs and analyzer are None (<<>>;
\* <<x>> is the value x), user_states is the empty dict
ITMOTelegramBot == [programs |-> <<>>, analyzer |-> <<>>, user_states |-> <<>>]

\* `not self.programs or not self.analyzer` (lines 184, 187, 213, 216)
NotLoaded(b) == b.programs = <<>> \/ b.analyzer = <<>>

\* self.user_states[user_id] = {'action': action} or {}
SetState(b, user_id, action) ==
    [b EXCEPT !.user_states = (user_id :> action) @@ @]

\* user_id in self.user_states and
\* self.user_states[user_id].get('action') == 'waiting_background' (lines 526-529)
IsWaiting(b, user_id) ==
    /\ user_id \in DOMAIN b.user_states
    /\ b.user_states[user_id] = WAITING_BACKGROUND

\* Mutant of _load_programs: an analyzer that exists is kept.
LoadProgramsKeepAnalyzer(b, id, ai_html, ai_product_html) ==
    IF ai_html.html # <<>> /\ ai_product_html.html # <<>>
    THEN LET progs == List(id, << parse_ai_program(ai_html),
                                  parse_ai_product_program(ai_product_html) >>)
         IN  [b EXCEPT !.programs = <<progs>>,
                       !.analyzer = IF @ = <<>> THEN <<ProgramAnalyzer(progs)>> ELSE @]
    ELSE b

\* Mutant of _load_programs: a load that fails forgets the catalog.
LoadProgramsResetOnFailure(b, id, ai_html, ai_product_html) ==
    IF ai_html.html # <<>> /\ ai_product_html.html # <<>>
    THEN LET progs == List(id, << parse_ai_program(ai_html),
                                  parse_ai_product_program(ai_product_html) >>)
         IN  [b EXCEPT !.programs = <<progs>>, !.analyzer = <<ProgramAnalyzer(progs)>>]
    ELSE [b EXCEPT !.programs = <<>>, !.analyzer = <<>>]

\* lines 68-78 of _load_programs, run when the second page has arrived: with
\* both pages non-empty the catalog is parsed and the two attributes are
\* assigned (no await in between); else nothing is assigned
_load_programs(b, id, ai_html, ai_product_html) ==
    IF ai_html.html # <<>> /\ ai_product_html.html # <<>>
    THEN LET progs == List(id, << parse_ai_program(ai_html),
                                  parse_ai_product_program(ai_product_html) >>)
         IN  [b EXCEPT !.programs = <<progs>>, !.analyzer = <<ProgramAnalyzer(progs)>>]
    ELSE b

\* Mutant of handle_message: the pending state is left as it is.
HandleMessageKeepsState(b, user_id) == b

\* lines 526-534 of handle_message: a waiting user's state is reset
handle_message(b, user_id) ==
    IF IsWaiting(b, user_id) THEN SetState(b, user_id, NO_ACTION) ELSE b

\* the users that write to the bot
MaxUsers == 2

Users == 1..MaxUsers

\* the updates handled, each by its own handler task
MaxUpdates == 3

Tasks == 1..MaxUpdates

\* an update: the handler it is dispatched to and the user it comes from
Update(handler, user_id) == [op |-> handler, user_id |-> user_id]

\* the locals of a handler task: `pc` is the await it is suspended at
\* ("idle" before the update arrives, "done" after the handler has returned)
Task(update, at) ==
    [op |-> update.op, user_id |-> update.user_id, pc |-> at,
     ai_html |-> EMPTY_PAGE, ai_product_html |-> EMPTY_PAGE]

IdleTask == Task(Update("none", 0), "idle")

\* a handler that has returned has no locals
DoneTask == Task(Update("none", 0), "done")

\* a handler is running
Running(t) == locals[t].pc \notin {"idle", "done"}

InitBot ==
    /\ programs = None
    /\ course_index = None
    /\ course_clusters = None
    /\ skill_mapping = None
    /\ NoCall
    /\ parser = None
    /\ bot = ITMOTelegramBot
    /\ calls = <<>>
    /\ locals = [t \in Tasks |-> IdleTask]

\* task t goes on to the await `at`
Goto(t, at) ==
    /\ locals' = [locals EXCEPT ![t].pc = at]
    /\ UNCHANGED calls

\* the handler of task t returns: `calls` keeps the handler, the user, what
\* the handler did, and whether the catalog is loaded at that moment
Finish(t, l, result) ==
    /\ locals' = [locals EXCEPT ![t] = DoneTask]
    /\ calls' = Append(calls, [op |-> l.op, user_id |-> l.user_id,
                               result |-> result, loaded |-> ~NotLoaded(bot')])

BotUnchanged ==
    UNCHANGED <<engine, parser, pc, op, background, profile, course, program, frame,
                recommendation, elective_courses, recommendations, user_type, report,
                argument, returned>>

\* the task has the least number of the tasks that have not started
NextTask(t) ==
    /\ locals[t].pc = "idle"
    /\ \A s \in Tasks : s < t => locals[s].pc # "idle"

\* the user has sent an update
Known(user_id) ==
    \/ \E t \in Tasks : locals[t].user_id = user_id
    \/ \E n \in 1..Len(calls) : calls[n].user_id = user_id

\* The handlers use a user id as a key of user_states only, so the users are
\* numbered in the order of their first update.
NextUser(user_id) == user_id = 1 \/ Known(user_id - 1)

\* /start arrives (start_command, lines 83-93): the user's state is reset; the
\* handler awaits the reply that announces the load, or the welcome reply
Arrive_start_command(t, user_id) ==
    /\ NextTask(t)
    /\ NextUser(user_id)
    /\ bot' = SetState(bot, user_id, NO_ACTION)
    /\ locals' = [locals EXCEPT ![t] =
                     Task(Update("start_command", user_id),
                          IF bot.programs = <<>> THEN "announce" ELSE "reply")]
    /\ UNCHANGED calls
    /\ BotUnchanged

\* a button is pressed (button_callback, lines 155-163): after the await of
\* query.answer() the press is dispatched to _handle_compare or to
\* _handle_recommend_start, which looks for the catalog (lines 184-185,
\* 213-214) and awaits the announcement of the load, the prompt, or the reply
Arrive_button_callback(t, data, user_id) ==
    /\ NextTask(t)
    /\ NextUser(user_id)
    /\ locals' = [locals EXCEPT ![t] =
                     Task(Update(data, user_id),
                          IF NotLoaded(bot) THEN "announce"
                          ELSE IF data = "recommend" THEN "prompt" ELSE "reply")]
    /\ UNCHANGED <<bot, calls>>
    /\ BotUnchanged

\* a text arrives (handle_message, lines 509-549): a waiting user's text goes
\* to _show_recommendations_for_message, any other to _analyze_question; the
\* handler awaits its reply
Arrive_handle_message(t, user_id) ==
    /\ NextTask(t)
    /\ NextUser(user_id)
    /\ bot' = handle_message(bot, user_id)
    /\ locals' = [locals EXCEPT ![t] =
                     Task(Update("handle_message", user_id),
                          IF IsWaiting(bot, user_id) THEN "thanks" ELSE "reply")]
    /\ UNCHANGED calls
    /\ BotUnchanged

\* lines 60-63: the announcement is sent and _load_programs begins; it awaits
\* the first page, unless opening the parser raises, which line 80 catches
BeginLoad(t, raises) ==
    /\ locals[t].pc = "announce"
    /\ Goto(t, IF raises THEN "loaded" ELSE "fetch_ai")
    /\ UNCHANGED bot
    /\ BotUnchanged

\* line 63: fetch_page returns the first page
FetchedAi(t, page) ==
    /\ locals[t].pc = "fetch_ai"
    /\ locals' = [locals EXCEPT ![t].pc = "fetch_ai_product", ![t].ai_html = page]
    /\ UNCHANGED <<bot, calls>>
    /\ BotUnchanged

\* lines 64-77: fetch_page returns the second page; the handler then awaits
\* the closing of the parser
FetchedAiProduct(t, page) ==
    /\ locals[t].pc = "fetch_ai_product"
    /\ bot' = _load_programs(bot, t, locals[t].ai_html, page)
    /\ locals' = [locals EXCEPT ![t].pc = "loaded", ![t].ai_product_html = page]
    /\ UNCHANGED calls
    /\ BotUnchanged

\* _load_programs has returned: start_command goes on to its replies (lines
\* 94-97), the button handlers look for the catalog again (187-189, 216-218)
AfterLoad(t) ==
    /\ locals[t].pc = "loaded"
    /\ UNCHANGED bot
    /\ IF locals[t].op = "start_command" THEN Goto(t, "reply")
       ELSE IF NotLoaded(bot) THEN Finish(t, locals[t], "failed")
       ELSE Goto(t, IF locals[t].op = "recommend" THEN "prompt" ELSE "reply")
    /\ BotUnchanged

\* lines 227-239 of _handle_recommend_start: the prompt has been sent
Prompted(t) ==
    /\ locals[t].pc = "prompt"
    /\ bot' = SetState(bot, locals[t].user_id, WAITING_BACKGROUND)
    /\ Finish(t, locals[t], "ENTERING_BACKGROUND")
    /\ BotUnchanged

\* the last reply of the handler has been sent: the welcome text (line 122),
\* the comparison (192-208), the answer of _analyze_question (548-549)
Replied(t) ==
    /\ locals[t].pc = "reply"
    /\ UNCHANGED bot
    /\ Finish(t, locals[t],
              IF locals[t].op = "start_command" THEN "CHOOSING_ACTION"
              ELSE IF locals[t].op = "compare" THEN "get_program_comparison"
              ELSE "_analyze_question")
    /\ BotUnchanged

\* lines 536-542 and 434-463: the thanks have been sent;
\* _show_recommendations_for_message answers with the recommendations of the
\* analyzer, or that the data are still loading when there is no analyzer
Thanked(t) ==
    /\ locals[t].pc = "thanks"
    /\ UNCHANGED bot
    /\ Finish(t, locals[t],
              IF bot.analyzer = <<>> THEN "still loading"
              ELSE "get_course_recommendations")
    /\ BotUnchanged

\* a step of a handler of /start or of a button
Step(t) ==
    \/ \E raises \in BOOLEAN : BeginLoad(t, raises)
    \/ \E page \in {EMPTY_PAGE, PLAIN_PAGE} : FetchedAi(t, page)
    \/ \E page \in {EMPTY_PAGE, PLAIN_PAGE} : FetchedAiProduct(t, page)
    \/ AfterLoad(t)
    \/ Prompted(t)
    \/ Replied(t)

\* The Application is built without concurrent_updates (lines 41 and 603):
\* it handles one update after the other, so an update arrives when no
\* handler is running.
NoneRunning == \A t \in Tasks : ~Running(t)

ChatNext ==
    \/ \E t \in Tasks, user_id \in Users : NoneRunning /\ Arrive_start_command(t, user_id)
    \/ \E t \in Tasks, user_id \in Users, data \in {"compare", "recommend"} :
           NoneRunning /\ Arrive_button_callback(t, data, user_id)
    \/ \E t \in Tasks, user_id \in Users : NoneRunning /\ Arrive_handle_message(t, user_id)
    \/ \E t \in Tasks : Step(t)
    \/ \E t \in Tasks : Thanked(t)

SpecChat == InitBot /\ [][ChatNext]_vars

\* the handlers that race through _load_programs
MaxHandlers == 2

\* Handlers run concurrently: an update arrives whatever the others do.
LoadNext ==
    \/ \E t \in 1..MaxHandlers, user_id \in Users : Arrive_start_command(t, user_id)
    \/ \E t \in 1..MaxHandlers, user_id \in Users, data \in {"compare", "recommend"} :
           Arrive_button_callback(t, data, user_id)
    \/ \E t \in 1..MaxHandlers : Step(t)

SpecLoad == InitBot /\ [][LoadNext]_vars

---------------------------------------------------------------------------
(* The menu buttons that name a program *)

\* str.replace(old, ''): every occurrence of old is removed, from the left
RECURSIVE Remove(_, _)
Remove(s, old) ==
    IF Len(s) < Len(old) THEN s
    ELSE IF SubSeq(s, 1, Len(old)) = old THEN Remove(SubSeq(s, Len(old) + 1, Len(s)), old)
    ELSE <<Head(s)>> \o Remove(Tail(s), old)

\* str.startswith(prefix)
StartsWith(s, prefix) == Len(s) >= Len(prefix) /\ SubSeq(s, 1, Len(prefix)) = prefix

\* Mutant of DisplayName: the data are matched by their beginning.
DisplayNameByBeginning(data, prefix) ==
    LET program_name == Remove(data, prefix)
    \* "ai"  "Искусственный интеллект"
    IN  IF StartsWith(program_name, <<97,105>>) THEN << <<1048,1089,1082,1091,1089,1089,1090,1074,1077,1085,1085,1099,1081,32,1080,1085,1090,1077,1083,1083,1077,1082,1090>> >>
        \* "ai_product"  "AI Product Management"
        ELSE IF StartsWith(program_name, <<97,105,95,112,114,111,100,117,99,116>>) THEN << <<65,73,32,80,114,111,100,117,99,116,32,77,97,110,97,103,101,109,101,110,116>> >>
        ELSE <<>>

\* lines 287-295 (and 323-331, 346-354): the display name of the program the
\* callback data name, None (<<>>) when they name neither program
DisplayName(data, prefix) ==
    LET program_name == Remove(data, prefix)
    \* "ai"  "Искусственный интеллект"
    IN  IF program_name = <<97,105>> THEN << <<1048,1089,1082,1091,1089,1089,1090,1074,1077,1085,1085,1099,1081,32,1080,1085,1090,1077,1083,1083,1077,1082,1090>> >>
        \* "ai_product"  "AI Product Management"
        ELSE IF program_name = <<97,105,95,112,114,111,100,117,99,116>> THEN << <<65,73,32,80,114,111,100,117,99,116,32,77,97,110,97,103,101,109,101,110,116>> >>
        ELSE <<>>

\* "⏳ Данные о программах еще загружаются. Попробуйте позже."
STILL_LOADING == <<9203,32,1044,1072,1085,1085,1099,1077,32,1086,32,1087,1088,1086,1075,1088,1072,1084,1084,1072,1093,32,1077,1097,1077,32,1079,1072,1075,1088,1091,1078,1072,1102,1090,1089,1103,46,32,1055,1086,1087,1088,1086,1073,1091,1081,1090,1077,32,1087,1086,1079,1078,1077,46>>

\* the reply of a handler that looks the chosen program up with `method`
\* (lines 287-303): the text is sent whole or in parts of MAX_MESSAGE_LENGTH
\* characters, the model keeps the text
Selection(b, program_display_name, method) ==
    IF program_display_name = <<>> THEN << Piece("text", NOT_FOUND) >>
    ELSE IF b.analyzer = <<>> THEN << Piece("text", STILL_LOADING) >>
    ELSE IF method = "get_detailed_program_info"
    THEN get_detailed_program_info(b.analyzer[1].programs.items, program_display_name[1])
    ELSE IF method = "get_career_paths"
    THEN get_career_paths(b.analyzer[1].programs.items, program_display_name[1])
    ELSE get_admission_info(b.analyzer[1].programs.items, program_display_name[1])

\* lines 285-320
_handle_program_selection(b, data) ==
    \* "program_"
    Selection(b, DisplayName(data, <<112,114,111,103,114,97,109,95>>), "get_detailed_program_info")

\* lines 321-342
_handle_career_program(b, data) ==
    \* "career_"
    Selection(b, DisplayName(data, <<99,97,114,101,101,114,95>>), "get_career_paths")

\* lines 344-378
_handle_admission_program(b, data) ==
    \* "admission_"
    Selection(b, DisplayName(data, <<97,100,109,105,115,115,105,111,110,95>>), "get_admission_info")

\* lines 172-177 of button_callback for the data of a program button; other
\* data get no reply here
button_callback(b, data) ==
    \* "program_"
    IF StartsWith(data, <<112,114,111,103,114,97,109,95>>) THEN _handle_program_selection(b, data)
    \* "career_"
    ELSE IF StartsWith(data, <<99,97,114,101,101,114,95>>) THEN _handle_career_program(b, data)
    \* "admission_"
    ELSE IF StartsWith(data, <<97,100,109,105,115,115,105,111,110,95>>) THEN _handle_admission_program(b, data)
    ELSE <<>>

\* the callback data of the buttons built by _handle_program_info_start,
\* _handle_career_start and _handle_admission_start (lines 241-283)
MenuButtons ==
    \* "program_ai"  "program_ai_product"  "career_ai"  "career_ai_product"
    { <<112,114,111,103,114,97,109,95,97,105>>, <<112,114,111,103,114,97,109,95,97,105,95,112,114,111,100,117,99,116>>, <<99,97,114,101,101,114,95,97,105>>, <<99,97,114,101,101,114,95,97,105,95,112,114,111,100,117,99,116>>,
      \* "admission_ai"  "admission_ai_product"
      <<97,100,109,105,115,115,105,111,110,95,97,105>>, <<97,100,109,105,115,115,105,111,110,95,97,105,95,112,114,111,100,117,99,116>> }

\* callback data no menu has: a button of an older menu
\* "program_data_science"
StaleButtons == { <<112,114,111,103,114,97,109,95,100,97,116,97,95,115,99,105,101,110,99,101>> }

\* buttons pressed in one chat
MaxPresses == 2

\* the bot before the load, or after a load of two pages
InitMenu ==
    /\ programs = None
    /\ course_index = None
    /\ course_clusters = None
    /\ skill_mapping = None
    /\ NoCall
    /\ parser = None
    /\ \E ai_html \in {EMPTY_PAGE, PLAIN_PAGE, RICH_PAGE}, ai_product_html \in {PLAIN_PAGE, RICH_PAGE} :
           bot = _load_programs(ITMOTelegramBot, 1, ai_html, ai_product_html)
    /\ calls = <<>>
    /\ locals = None

\* the button with these callback data is pressed: the reply
Press(data) ==
    /\ Len(calls) < MaxPresses
    /\ pc' = "done"
    /\ op' = "button_callback"
    /\ argument' = data
    /\ report' = button_callback(bot, data)
    /\ calls' = Append(calls, [data |-> data, report |-> button_callback(bot, data)])
    /\ UNCHANGED <<bot, parser, engine, background, profile, course, program, frame,
                   recommendation, elective_courses, recommendations, user_type, returned,
                   locals>>

MenuNext ==
    \/ \E data \in MenuButtons : Press(data)
    \/ \E data \in StaleButtons : Press(data)

SpecMenu == InitMenu /\ [][MenuNext]_vars

---------------------------------------------------------------------------
(* Properties *)

Scored == op = "_evaluate_course_intelligently"

Ranked == op = "_get_program_recommendations"

Extracted == op \in {"_analyze_background", "get_course_recommendations"}

\* C1: the Recommendation the scorer returns has 0 <= score <= 10 and
\* 0 <= compatibility_score <= 10, for every course and profile.
C1_ScoreClamped ==
    Scored =>
        /\ recommendation.score >= 0
        /\ recommendation.score <= 100
        /\ recommendation.compatibility_score >= 0
        /\ recommendation.compatibility_score <= 100

\* the scorer accumulated more than 10 and returned exactly 10
C1_Witness ==
    /\ Scored
    /\ frame.score > 100
    /\ recommendation.score = 100

\* every keyword list the scorer tests a course name against
ScorerKeywordLists ==
    { skill_mapping[n].courses : n \in 1..Len(skill_mapping) }
    \cup { technical_course_keywords, math_course_keywords, business_course_keywords,
           research_course_keywords, practice_course_keywords, advanced_course_keywords,
           introductory_keywords, hard_keywords, programming_difficulty_keywords,
           math_difficulty_keywords, business_difficulty_keywords }

MatchesNoScorerKeyword(name) ==
    \A keywords \in ScorerKeywordLists : ~AnyIn(keywords, Lower(name))

\* C2: a course whose lower-cased name contains no keyword of any table of
\* the scorer receives score exactly 1.0, with the generic reason of the floor.
C2_ScoreFloor ==
    (Scored /\ MatchesNoScorerKeyword(course.name)) =>
        /\ recommendation.score = 10
        /\ InList(Sentence("basic course for all students"), frame.reasons)

\* what the scorer does for such a course: the base difficulty 2.0 is its
\* score, and the floor of lines 893-895 is not applied
C2_CodeGivesBaseDifficulty ==
    (Scored /\ MatchesNoScorerKeyword(course.name)) =>
        /\ recommendation.score = 20
        /\ frame.reasons = <<>>

\* the number of places of seq that hold x
Count(seq, x) == Cardinality({ n \in 1..Len(seq) : seq[n] = x })

RecommendedCourses == [n \in 1..Len(recommendations) |-> recommendations[n].course]

\* C3: the list _get_program_recommendations returns holds exactly one
\* Recommendation for each course of the selected elective set, each with
\* score > 0: the score filter drops no course.
C3_RankingTotal ==
    Ranked =>
        /\ Len(recommendations) = Len(elective_courses)
        /\ \A n \in 1..Len(elective_courses) :
               Count(RecommendedCourses, elective_courses[n])
                   = Count(elective_courses, elective_courses[n])
        /\ \A n \in 1..Len(recommendations) : recommendations[n].score > 0

\* a ranking of several courses, one of them a course nothing matches for a
\* profile with no skills: the lowest-scored case is kept
C3_Witness ==
    /\ Ranked
    /\ Len(elective_courses) >= 2
    /\ profile.programming_skills = <<>>
    /\ profile.math_skills = <<>>
    /\ \E n \in 1..Len(recommendations) :
           /\ MatchesNoScorerKeyword(recommendations[n].course.name)
           /\ recommendations[n].priority = "low"

\* the courses of the recommendations that have score v, in ranking order
CoursesRankedWith(v) ==
    LET Has(r) == r.score = v
    IN  [n \in 1..Len(SelectSeq(recommendations, Has)) |->
            SelectSeq(recommendations, Has)[n].course]

\* the courses of the program that were given score v, in catalog order
CoursesOfProgramWith(v) ==
    LET Has(c) == \E n \in 1..Len(recommendations) :
                      /\ recommendations[n].course = c
                      /\ recommendations[n].score = v
    IN  SelectSeq(program.courses, Has)

\* C4: the list is sorted by non-increasing score, and recommendations of
\* equal score keep the relative order of their courses in the program's
\* course list.
C4_SortedStable ==
    Ranked =>
        /\ \A i, j \in 1..Len(recommendations) :
               i < j => recommendations[i].score >= recommendations[j].score
        /\ \A n \in 1..Len(recommendations) :
               CoursesRankedWith(recommendations[n].score)
                   = CoursesOfProgramWith(recommendations[n].score)

\* the sort moved a course forward past a lower-scored one, and two different
\* courses of equal score are in the list
C4_Witness ==
    /\ Ranked
    /\ RecommendedCourses # elective_courses
    /\ \E i, j \in 1..Len(recommendations) :
           /\ i < j
           /\ recommendations[i].score = recommendations[j].score
           /\ recommendations[i].course # recommendations[j].course

\* the places of the program's course list whose type is one of `types`
PlacesOfType(types) ==
    { n \in 1..Len(program.courses) : program.courses[n].course_type \in types }

\* the courses at the places `places` of the program, in catalog order
CoursesAt(places) ==
    LET RECURSIVE From(_)
        From(n) == IF n > Len(program.courses) THEN <<>>
                   ELSE IF n \in places THEN <<program.courses[n]>> \o From(n + 1)
                   ELSE From(n + 1)
    IN  From(1)

\* "выборная"  "факультативная"
ElectivePlaces == PlacesOfType({ <<1074,1099,1073,1086,1088,1085,1072,1103>>, <<1092,1072,1082,1091,1083,1100,1090,1072,1090,1080,1074,1085,1072,1103>> })

NotRequiredPlaces ==
    \* "обязательная"
    { n \in 1..Len(program.courses) : program.courses[n].course_type # <<1086,1073,1103,1079,1072,1090,1077,1083,1100,1085,1072,1103>> }

\* C5: the courses scored for a program are (1) exactly its elective and
\* optional courses if it has any; otherwise (2) exactly its courses that are
\* not required if it has any; otherwise (3) its full course list.
C5_ElectiveSelection ==
    Ranked =>
        /\ elective_courses =
               IF ElectivePlaces # {} THEN CoursesAt(ElectivePlaces)
               ELSE IF NotRequiredPlaces # {} THEN CoursesAt(NotRequiredPlaces)
               ELSE program.courses
        /\ { RecommendedCourses[n] : n \in 1..Len(recommendations) }
               = { elective_courses[n] : n \in 1..Len(elective_courses) }

\* case (2): no elective or optional course, a required course and a course
\* of another type
C5_Witness ==
    /\ Ranked
    /\ ElectivePlaces = {}
    /\ NotRequiredPlaces # {}
    /\ NotRequiredPlaces # 1..Len(program.courses)
    /\ Len(elective_courses) = Cardinality(NotRequiredPlaces)

\* case (1), with required courses left out
C5_WitnessElective ==
    /\ Ranked
    /\ ElectivePlaces # {}
    /\ ElectivePlaces # NotRequiredPlaces
    /\ Len(elective_courses) < Len(program.courses)

\* case (3): only required courses
C5_WitnessAllRequired ==
    /\ Ranked
    /\ NotRequiredPlaces = {}
    /\ Len(program.courses) >= 2
    /\ elective_courses = program.courses

\* C6: priority is 'high' iff the final score before the clamp is >= 7.0,
\* 'medium' iff it is >= 4.0 and < 7.0, 'low' otherwise; `frame.score` is the
\* score after the floor rule.
C6_PriorityOfFinalScore ==
    Scored =>
        /\ (recommendation.priority = "high") <=> (frame.score >= 70)
        /\ (recommendation.priority = "medium") <=> (frame.score >= 40 /\ frame.score < 70)
        /\ (recommendation.priority = "low") <=> (frame.score < 40)

\* the boundary: a final score of exactly 7.0
C6_Witness ==
    /\ Scored
    /\ frame.score = 70
    /\ recommendation.priority = "high"

\* the other boundary: a final score of exactly 4.0
C6_WitnessMedium ==
    /\ Scored
    /\ frame.score = 40
    /\ recommendation.priority = "medium"

\* "Машинное обучение"  "выборная"
Scenario1Course == Course(<<1052,1072,1096,1080,1085,1085,1086,1077,32,1086,1073,1091,1095,1077,1085,1080,1077>>, 4, 2, <<1074,1099,1073,1086,1088,1085,1072,1103>>)

InScenario1 ==
    /\ Scored
    \* "У меня есть опыт в программировании на Python и математике"
    /\ background = <<1059,32,1084,1077,1085,1103,32,1077,1089,1090,1100,32,1086,1087,1099,1090,32,1074,32,1087,1088,1086,1075,1088,1072,1084,1084,1080,1088,1086,1074,1072,1085,1080,1080,32,1085,1072,32,80,121,116,104,111,110,32,1080,32,1084,1072,1090,1077,1084,1072,1090,1080,1082,1077>>
    /\ course = Scenario1Course

\* C7 as stated: in scenario 1 the scorer returns priority 'high'.
C7_Scenario1High == InScenario1 => recommendation.priority = "high"

\* C7 amended: in scenario 1 the profile has the programming tag python and a
\* math tag, the score is 6.0 (2.0 for each of the two skill categories and
\* the base difficulty 2.0, with no difficulty reduction) and the priority
\* is 'medium'.
C7_Scenario1Medium ==
    InScenario1 =>
        \* "python"
        /\ InList(<<112,121,116,104,111,110>>, profile.programming_skills)
        /\ profile.math_skills # <<>>
        /\ frame.compatibility_score = 40
        /\ frame.difficulty_bonus = 20
        /\ recommendation.score = 60
        /\ recommendation.priority = "medium"

\* "Машинное обучение"
C7_Witness == InScenario1 /\ recommendation.course.name = <<1052,1072,1096,1080,1085,1085,1086,1077,32,1086,1073,1091,1095,1077,1085,1080,1077>>

\* the tags of `table` that are in `tags` are exactly those with a keyword in s
TagsAreThoseMatching(table, tags, s) ==
    /\ \A n \in 1..Len(table) :
           InList(table[n].key, tags) <=> AnyIn(table[n].keywords, s)
    /\ Len(tags) = Cardinality({ n \in 1..Len(table) : AnyIn(table[n].keywords, s) })

HasNegation(s) ==
    \* "не знаю"  "не умею"  "не понимаю"  "не владею"
    \E neg \in { <<1085,1077,32,1079,1085,1072,1102>>, <<1085,1077,32,1091,1084,1077,1102>>, <<1085,1077,32,1087,1086,1085,1080,1084,1072,1102>>, <<1085,1077,32,1074,1083,1072,1076,1077,1102>>,
                 \* "не программирую"
                 <<1085,1077,32,1087,1088,1086,1075,1088,1072,1084,1084,1080,1088,1091,1102>> } : Contains(neg, s)

ProfileKeywordLists ==
    { programming_keywords[n].keywords : n \in 1..Len(programming_keywords) }
    \cup { math_keywords[n].keywords : n \in 1..Len(math_keywords) }
    \cup { business_keywords[n].keywords : n \in 1..Len(business_keywords) }
    \cup { education_keywords[n].keywords : n \in 1..Len(education_keywords) }
    \cup { career_keywords[n].keywords : n \in 1..Len(career_keywords) }
    \cup { learning_keywords[n].keywords : n \in 1..Len(learning_keywords) }
    \cup { research_keywords, experience_keywords, full_time_keywords, part_time_keywords }

MatchesNoProfileKeyword(text) ==
    \A keywords \in ProfileKeywordLists : ~AnyIn(keywords, Lower(text))

\* C9: for the empty string and for any text that matches no keyword,
\* _analyze_background returns a complete profile with every list empty and
\* the three defaults, and get_course_recommendations uses archetype beginner.
C9_DefaultProfile ==
    (Extracted /\ MatchesNoProfileKeyword(background)) =>
        /\ profile = [ programming_skills   |-> <<>>,
                       math_skills          |-> <<>>,
                       business_skills      |-> <<>>,
                       research_interests   |-> <<>>,
                       \* "нет опыта"
                       work_experience      |-> <<1085,1077,1090,32,1086,1087,1099,1090,1072>>,
                       \* "бакалавриат"
                       education_level      |-> <<1073,1072,1082,1072,1083,1072,1074,1088,1080,1072,1090>>,
                       career_goals         |-> <<>>,
                       learning_preferences |-> <<>>,
                       \* "стандартная"
                       time_availability    |-> <<1089,1090,1072,1085,1076,1072,1088,1090,1085,1072,1103>> ]
        /\ (op = "get_course_recommendations" => user_type = "beginner")

\* recommend on a text that is not empty and matches nothing
C9_Witness ==
    /\ op = "get_course_recommendations"
    /\ background # <<>>
    /\ MatchesNoProfileKeyword(background)
    /\ user_type = "beginner"

\* extract on the empty string
C9_WitnessEmpty ==
    /\ op = "_analyze_background"
    /\ background = <<>>
    \* "бакалавриат"
    /\ profile.education_level = <<1073,1072,1082,1072,1083,1072,1074,1088,1080,1072,1090>>

---------------------------------------------------------------------------
(* Properties of the cluster index *)

\* every course of the catalog the engine was built from
CatalogCourses ==
    UNION { { programs[n].courses[k] : k \in 1..Len(programs[n].courses) } :
              n \in 1..Len(programs) }

\* the keys of the clusters whose course list holds c
KeysHolding(c) ==
    { course_clusters[n].key :
        n \in { k \in 1..Len(course_clusters) : InList(c, course_clusters[k].courses) } }

\* the keyword groups in the order introductory, ML, deep learning, NLP,
\* vision, business, analytics
GroupKeywords ==
    << cluster_introductory_keywords, cluster_ml_keywords, cluster_dl_keywords,
       cluster_nlp_keywords, cluster_vision_keywords, cluster_business_keywords,
       cluster_analytics_keywords >>

\* the clusters the branch of each group appends to
GroupClusters ==
    << {"ai_core", "product_management", "data_analytics"}, {"machine_learning"},
       {"deep_learning"}, {"nlp"}, {"computer_vision"},
       {"business_ai", "product_management"}, {"data_analytics"} >>

MatchingGroups(c) ==
    { g \in 1..Len(GroupKeywords) : AnyIn(GroupKeywords[g], Lower(c.name)) }

FirstMatchingGroup(c) ==
    CHOOSE g \in MatchingGroups(c) : \A h \in MatchingGroups(c) : g <= h

\* C11: after construction, every course of the catalog is in the course
\* list of at most one cluster.
C11_AtMostOneCluster ==
    \A c \in CatalogCourses : Cardinality(KeysHolding(c)) <= 1

\* a catalog of two programs that hold a course whose name matches the
\* machine-learning and the deep-learning group: it is in one cluster only
C11_Witness ==
    /\ Len(programs) = 2
    /\ \E c \in CatalogCourses :
           /\ {2, 3} \subseteq MatchingGroups(c)
           /\ KeysHolding(c) = {"machine_learning"}

\* C12: a course whose name matches the keywords of two or more groups is in
\* a cluster of the earliest of these groups, and in no other cluster.
C12_FirstMatchWins ==
    \A c \in CatalogCourses :
        Cardinality(MatchingGroups(c)) >= 2 =>
            /\ KeysHolding(c) # {}
            /\ KeysHolding(c) \subseteq GroupClusters[FirstMatchingGroup(c)]

\* what the code does for such a course: it is in no cluster of another
\* group, and it is in a cluster unless the earliest group is the
\* introductory one and none of the three inner tests of that branch succeeds
C12_CodeFirstMatchOrNone ==
    \A c \in CatalogCourses :
        Cardinality(MatchingGroups(c)) >= 2 =>
            /\ KeysHolding(c) \subseteq GroupClusters[FirstMatchingGroup(c)]
            /\ (KeysHolding(c) = {}) <=>
                   (/\ FirstMatchingGroup(c) = 1
                    /\ IntroductoryTarget(Lower(c.name)) = "none")

\* C13: a course is in a cluster whenever its name matches at least one
\* keyword group, and in no cluster only if it matches none.
C13_AssignedWhenMatching ==
    \A c \in CatalogCourses : (KeysHolding(c) = {}) <=> (MatchingGroups(c) = {})

\* what the code does: an introductory course that mentions neither AI, nor
\* a product, nor analysis is in no cluster although it matches a group
C13_CodeDropsIntroductory ==
    \A c \in CatalogCourses :
        (KeysHolding(c) = {}) <=>
            \/ MatchingGroups(c) = {}
            \/ (1 \in MatchingGroups(c) /\ IntroductoryTarget(Lower(c.name)) = "none")

---------------------------------------------------------------------------
(* Properties of the reports *)

Recommended == op = "get_course_recommendations"

\* C14: the archetype is python_dev when 'python' is among the programming
\* skills, else java_dev when 'java' is, else tech_dev when there is any
\* programming skill; with no programming skill it is math_background if
\* there is a math skill, else business_background if there is a business
\* skill, else beginner.
C14_ArchetypePrecedence ==
    Recommended =>
        \* "python"
        LET python == InList(<<112,121,116,104,111,110>>, profile.programming_skills)
            \* "java"
            java == InList(<<106,97,118,97>>, profile.programming_skills)
            programming == profile.programming_skills # <<>>
            maths == profile.math_skills # <<>>
            business == profile.business_skills # <<>>
        IN  /\ (user_type = "python_dev") <=> python
            /\ (user_type = "java_dev") <=> (java /\ ~python)
            /\ (user_type = "tech_dev") <=> (programming /\ ~python /\ ~java)
            /\ (user_type = "math_background") <=> (maths /\ ~programming)
            /\ (user_type = "business_background") <=> (business /\ ~maths /\ ~programming)
            /\ (user_type = "beginner") <=> (~business /\ ~maths /\ ~programming)

\* a programming skill other than python together with a math skill
C14_Witness ==
    /\ Recommended
    /\ profile.math_skills # <<>>
    /\ user_type \in {"java_dev", "tech_dev"}

\* a programming skill together with a business skill
C14_WitnessBusiness ==
    /\ Recommended
    /\ profile.business_skills # <<>>
    /\ user_type \in {"python_dev", "java_dev", "tech_dev"}

\* a math and a business skill, no programming skill
C14_WitnessMath ==
    /\ Recommended
    /\ profile.business_skills # <<>>
    /\ user_type = "math_background"

\* C15: recommend gives exactly one verdict line for each program of the
\* catalog, in catalog order.
C15_OneVerdictPerProgram ==
    Recommended =>
        /\ Len(report) = Len(programs)
        /\ \A n \in 1..Len(report) : report[n].program = programs[n].name

\* a program of one of the two tracks: its name has 'искусственный
\* интеллект', 'ai', 'продукт' or 'product' in it
OfKnownTrack(prog) ==
    \* "искусственный интеллект"  "ai"  "продукт"  "product"
    \E word \in { <<1080,1089,1082,1091,1089,1089,1090,1074,1077,1085,1085,1099,1081,32,1080,1085,1090,1077,1083,1083,1077,1082,1090>>, <<97,105>>, <<1087,1088,1086,1076,1091,1082,1090>>, <<112,114,111,100,117,99,116>> } :
        Contains(word, Lower(prog.name))

\* what the code does: one line for each program of a known track, in catalog
\* order, and none for any other program
C15_CodeSkipsOtherPrograms ==
    Recommended =>
        LET known == SelectSeq(programs, OfKnownTrack)
        IN  /\ Len(report) = Len(known)
            /\ \A n \in 1..Len(report) : report[n].program = known[n].name

NameBased == op \in {"get_detailed_program_info", "get_career_paths", "get_admission_info"}

\* the places of the catalog whose lower-cased program name contains the
\* lower-cased argument
MatchingPlaces ==
    { n \in 1..Len(programs) : Contains(Lower(argument), Lower(programs[n].name)) }

FirstMatchingPlace == CHOOSE n \in MatchingPlaces : \A k \in MatchingPlaces : n <= k

\* the report the method gives on the catalog that holds programs[n] alone
ReportOn(n) ==
    CASE op = "get_detailed_program_info" ->
             get_detailed_program_info(<<programs[n]>>, argument)
      [] op = "get_career_paths" -> get_career_paths(<<programs[n]>>, argument)
      [] op = "get_admission_info" -> get_admission_info(<<programs[n]>>, argument)

\* C16: detail, career_paths and admission_info return the not-found
\* sentinel exactly when no program name contains the lower-cased query;
\* otherwise they report on the first program, in catalog order, whose
\* lower-cased name contains it.  No step changes the engine.
C16_NotFoundSentinel ==
    /\ [](NameBased =>
            /\ (returned = << Piece("text", NOT_FOUND) >>) <=> (MatchingPlaces = {})
            /\ MatchingPlaces # {} => returned = ReportOn(FirstMatchingPlace))
    /\ [][engine' = engine]_vars

\* a query in capitals that the first program does not match and the second
\* does
C16_Witness ==
    /\ NameBased
    /\ argument # Lower(argument)
    /\ MatchingPlaces = {2}
    /\ returned = ReportOn(2)
    /\ returned # << Piece("text", NOT_FOUND) >>

\* two programs match and their reports differ: the first is reported on
C16_WitnessFirst ==
    /\ NameBased
    /\ MatchingPlaces = {1, 2}
    /\ ReportOn(1) # ReportOn(2)
    /\ returned = ReportOn(1)

\* no program matches a query that is not empty
C16_WitnessNotFound ==
    /\ NameBased
    /\ programs # <<>>
    /\ MatchingPlaces = {}
    /\ returned = << Piece("text", NOT_FOUND) >>

Compared == op = "get_program_comparison"

\* the fields of a program that the second part of C17 lets differ
FacilityFields == {"cost", "dormitory", "military_center", "accreditation"}

\* the pieces of a paragraph that are not about the fields in `fields`
PiecesBut(paragraph, fields) ==
    LET Other(piece) == piece.field \notin fields
    IN  SelectSeq(paragraph, Other)

\* C17: compare gives exactly one paragraph per program, in catalog order,
\* each the paragraph of that program alone; two programs that differ only
\* in cost, dormitory, military center or accreditation have paragraphs that
\* differ only in the lines of the fields that differ.
C17_ComparisonPerProgram ==
    Compared =>
        /\ Len(returned) = Len(programs)
        /\ \A n \in 1..Len(programs) :
               /\ returned[n][1] = Piece("name", programs[n].name)
               /\ <<returned[n]>> = get_program_comparison(<<programs[n]>>)
        /\ \A i, j \in 1..Len(programs) :
               LET differing == { f \in FacilityFields : programs[i][f] # programs[j][f] }
                   Masked(prog) == [f \in DOMAIN prog |->
                                       IF f \in FacilityFields THEN <<>> ELSE prog[f]]
               IN  Masked(programs[i]) = Masked(programs[j]) =>
                       PiecesBut(returned[i], differing) = PiecesBut(returned[j], differing)

\* two programs with the same courses, one with a cost and a dormitory and
\* one without: two different paragraphs
C17_Witness ==
    /\ Compared
    /\ Len(programs) = 2
    /\ programs[1].courses = programs[2].courses
    /\ programs[1].name = programs[2].name
    /\ programs[1].cost # programs[2].cost
    /\ programs[1].dormitory # programs[2].dormitory
    /\ returned[1] # returned[2]
    /\ PiecesBut(returned[1], {"cost", "dormitory"}) = PiecesBut(returned[2], {"cost", "dormitory"})

---------------------------------------------------------------------------
(* Properties of the scorer: the skill categories *)

\* the skills of the profile in the three categories, in the order of the
\* three loops of the scorer
CategorySkills == <<profile.programming_skills, profile.math_skills, profile.business_skills>>

\* the entries of `reasons` that name a skill
SkillReasons ==
    LET NamesSkill(r) == r.rule = "matches your skills in"
    IN  SelectSeq(frame.reasons, NamesSkill)

RECURSIVE SumOfAmounts(_)
SumOfAmounts(terms) ==
    IF terms = <<>> THEN 0
    ELSE (IF Head(terms) = <<>> THEN 0 ELSE Head(terms)[1]) + SumOfAmounts(Tail(terms))

\* C20: each of the three skill categories adds to score and to
\* compatibility_score at most once, whatever the number of skills of the
\* profile in it; what it adds is the weight of one skill of the category in
\* the skill map or the generic 2.0, never their sum.
C20_OneTermPerCategory ==
    Scored =>
        /\ \A k \in 1..3 :
               LET term == frame.skill_terms[k]
               IN  term # <<>> =>
                       /\ InList(term[2], CategorySkills[k])
                       /\ \/ term[1] = 20
                          \/ /\ InMapping(skill_mapping, term[2])
                             /\ term[1] = Lookup(skill_mapping, term[2]).weight
        /\ frame.compatibility_score = SumOfAmounts(frame.skill_terms)
        /\ Len(SkillReasons) = Cardinality({ k \in 1..3 : frame.skill_terms[k] # <<>> })
        /\ frame.compatibility_score <= 3 * 25

\* python and java are both programming skills of the profile and the
\* course name has a keyword of both in the skill map: one weight is added
C20_Witness ==
    /\ Scored
    /\ Len(profile.programming_skills) >= 2
    /\ \A n \in 1..Len(profile.programming_skills) :
           AnyIn(Lookup(skill_mapping, profile.programming_skills[n]).courses,
                 Lower(course.name))
    \* "python"
    /\ frame.skill_terms[1] = <<20, <<112,121,116,104,111,110>>>>

\* the first programming skill passes neither test and the second one adds
\* its weight
C20_WitnessSecondSkill ==
    /\ Scored
    /\ Len(profile.programming_skills) >= 2
    /\ frame.skill_terms[1] # <<>>
    /\ frame.skill_terms[1][2] = profile.programming_skills[2]

---------------------------------------------------------------------------
(* Properties of the scorer: what it leaves alone *)

\* the course lists of the clusters, by cluster
CourseLists(clusters) == [n \in 1..Len(clusters) |-> clusters[n].courses]

\* C19: scoring a course against a profile leaves the course list of every
\* cluster, the skill map, the course and the profile as they were, two
\* scorings of one course against one profile return equal Recommendations,
\* and no step after construction changes a cluster's course list.
C19_ScorerIsPure ==
    /\ [](\A i, j \in 1..Len(calls) :
              (calls[i].course = calls[j].course /\ calls[i].profile = calls[j].profile)
                  => calls[i].result = calls[j].result)
    /\ [][calls' # calls =>
              /\ CourseLists(course_clusters') = CourseLists(course_clusters)
              /\ skill_mapping' = skill_mapping
              /\ profile' = profile
              /\ calls'[Len(calls')].profile = profile
              /\ calls'[Len(calls')].course = course'
              /\ recommendation'.course = course']_vars
    /\ [][CourseLists(course_clusters') = CourseLists(course_clusters)]_vars

\* one course, which the constructor filed under a cluster, was scored
\* twice against one profile with a skill it matches
C19_Witness ==
    /\ Len(calls) = 2
    /\ calls[1].course = calls[2].course
    /\ calls[1].profile = calls[2].profile
    /\ calls[1].result.compatibility_score > 0
    /\ \E n \in 1..Len(course_clusters) : InList(calls[1].course, course_clusters[n].courses)

---------------------------------------------------------------------------
(* Properties of the engine shared by several callers *)

\* what a public method returns when no other call is under way
Alone(name, arg) ==
    CASE name = "get_program_comparison" -> get_program_comparison(programs)
      [] name = "get_detailed_program_info" -> get_detailed_program_info(programs, arg)
      [] name = "get_career_paths" -> get_career_paths(programs, arg)
      [] name = "get_admission_info" -> get_admission_info(programs, arg)
      [] name = "get_program_by_keywords" -> get_program_by_keywords(programs, arg)
      [] name = "get_course_recommendations" -> get_course_recommendations(programs, arg).report

\* C18: no step of a public method writes to the catalog, the course index,
\* the cluster index or the skill map, and in every interleaving of the
\* callers' calls each call returns what it returns when run alone.
C18_SharedEngine ==
    /\ [](\A n \in 1..Len(calls) : calls[n].result = Alone(calls[n].op, calls[n].argument))
    /\ [][engine' = engine]_vars

\* two calls were under way at the same time; one of them found a program
\* by its name and the other one compared the programs
C18_Witness ==
    /\ Len(calls) = 2
    /\ calls[1].entered = 0
    /\ calls[2].entered = 0
    /\ calls[1].op = "get_career_paths"
    /\ calls[1].result = << Piece("text", CAREER_PATHS_PRODUCT) >>
    /\ calls[2].op = "get_program_comparison"
    /\ Len(calls[2].result) = Len(programs)

\* a call has returned while the other caller was inside its loop
C18_WitnessMidLoop ==
    /\ Len(calls) = 1
    /\ \E caller \in Callers :
           /\ locals[caller].op = "get_course_recommendations"
           /\ locals[caller].at = 1
           /\ locals[caller].entered = 0

---------------------------------------------------------------------------
(* Properties of the scorer: the terms of the score *)

\* The skill-map entry that describes a math or business tag of the
\* profile: the profile carries the Russian tag, the skill map the English
\* key of the same subject.
KnowledgeBaseKey(tag) ==
    \* "математика"  "mathematics"
    CASE tag = <<1084,1072,1090,1077,1084,1072,1090,1080,1082,1072>> -> <<<<109,97,116,104,101,109,97,116,105,99,115>>>>
      \* "статистика"  "statistics"
      [] tag = <<1089,1090,1072,1090,1080,1089,1090,1080,1082,1072>> -> <<<<115,116,97,116,105,115,116,105,99,115>>>>
      \* "линейная алгебра"  "linear_algebra"
      [] tag = <<1083,1080,1085,1077,1081,1085,1072,1103,32,1072,1083,1075,1077,1073,1088,1072>> -> <<<<108,105,110,101,97,114,95,97,108,103,101,98,114,97>>>>
      \* "менеджмент"  "business"
      [] tag = <<1084,1077,1085,1077,1076,1078,1084,1077,1085,1090>> -> <<<<98,117,115,105,110,101,115,115>>>>
      \* "продукт"  "product_management"
      [] tag = <<1087,1088,1086,1076,1091,1082,1090>> -> <<<<112,114,111,100,117,99,116,95,109,97,110,97,103,101,109,101,110,116>>>>
      [] OTHER -> <<>>

\* the profile skills of category k whose skill-map entry has a keyword that
\* occurs in the course name
KnowledgeBaseMatches(k) ==
    LET Matches(tag) ==
            /\ KnowledgeBaseKey(tag) # <<>>
            /\ AnyIn(Lookup(skill_mapping, KnowledgeBaseKey(tag)[1]).courses,
                     Lower(course.name))
    IN  SelectSeq(CategorySkills[k], Matches)

\* C21: for the math and for the business skills, when the course name
\* matches the skill-map keyword list of a skill of the profile, the weight
\* of a skill so matched is what the category adds (2.5 for statistics); the
\* generic 2.0 is added only when no skill-map list matches.
C21_KnowledgeBaseWeight ==
    Scored =>
        \A k \in {2, 3} :
            KnowledgeBaseMatches(k) # <<>> =>
                /\ frame.skill_terms[k] # <<>>
                /\ \E n \in 1..Len(KnowledgeBaseMatches(k)) :
                       frame.skill_terms[k][1] =
                           Lookup(skill_mapping,
                                  KnowledgeBaseKey(KnowledgeBaseMatches(k)[n])[1]).weight

\* what the scorer does: no math or business tag of a profile is a key of
\* the skill map, so these two categories add the generic 2.0 or nothing
C21_CodeGenericOnly ==
    Scored =>
        \A k \in {2, 3} :
            /\ \A n \in 1..Len(CategorySkills[k]) :
                   ~InMapping(skill_mapping, CategorySkills[k][n])
            /\ frame.skill_terms[k] # <<>> =>
                   /\ frame.skill_terms[k][1] = 20
                   /\ AnyIn(IF k = 2 THEN math_course_keywords ELSE business_course_keywords,
                            Lower(course.name))

\* the career goals of the profile whose title is in the career-path list
\* of a skill-map entry that has a keyword in the course name
GoalsDue ==
    LET Due(goal) ==
            \E n \in 1..Len(skill_mapping) :
                /\ InList(goal, skill_mapping[n].career_paths)
                /\ AnyIn(skill_mapping[n].courses, Lower(course.name))
    IN  SelectSeq(profile.career_goals, Due)

\* C22: every career goal of the profile whose title is in the career-path
\* list of a skill-map entry with a keyword in the course name adds 1.5 to
\* the score, once.
C22_CareerGoalTerm ==
    Scored =>
        /\ frame.goal_term = 15 * Len(GoalsDue)
        /\ \A n \in 1..Len(GoalsDue) : InList(GoalReasons(GoalsDue)[n], frame.reasons)

\* what the scorer does: it looks the lower-cased title up in lists of
\* capitalised titles, finds none, and the goals add nothing
C22_CodeAddsNothing ==
    Scored =>
        /\ frame.goal_term = 0
        /\ \A n \in 1..Len(profile.career_goals) :
               /\ Lower(profile.career_goals[n]) # profile.career_goals[n]
               /\ ~InList(GoalReasons(profile.career_goals)[n], frame.reasons)

\* the keywords by which a skill category lowers the difficulty, in the
\* order of CategorySkills
DifficultyKeywords ==
    << programming_difficulty_keywords, math_difficulty_keywords, business_difficulty_keywords >>

\* the skill categories that are not empty in the profile and have a
\* difficulty keyword in the course name
EasedCategories ==
    { k \in 1..3 : /\ CategorySkills[k] # <<>>
                   /\ AnyIn(DifficultyKeywords[k], Lower(course.name)) }

\* what a term of the score other than the skill, goal and difficulty terms
\* added, read off the reasons
ReasonTerm(rule, amount) == IF InList(Sentence(rule), frame.reasons) THEN amount ELSE 0

\* C23: the difficulty adjustment is the base difficulty (1.0 with an
\* introductory keyword, else 3.0 with an advanced keyword, else 2.0) minus
\* 1.0 for each non-empty skill category with a difficulty keyword in the
\* course name; it lies between -2.0 and 3.0, it is a term of the score, and
\* a Recommendation is returned for the course whatever its value.
C23_DifficultyAdjustment ==
    Scored =>
        LET base == IF AnyIn(introductory_keywords, Lower(course.name)) THEN 10
                    ELSE IF AnyIn(hard_keywords, Lower(course.name)) THEN 30
                    ELSE 20
        IN  /\ frame.difficulty_bonus = base - 10 * Cardinality(EasedCategories)
            /\ frame.difficulty_bonus \in {-20, -10, 0, 10, 20, 30}
            /\ frame.accumulated = frame.compatibility_score + frame.goal_term
                                   + ReasonTerm("matches your research interests", 15)
                                   + ReasonTerm("fits specialists with experience", 10)
                                   + ReasonTerm("fits your level of education", 10)
                                   + frame.difficulty_bonus
            /\ recommendation.course = course
            /\ recommendation.score = Min(IF frame.accumulated = 0 THEN 10 ELSE frame.accumulated,
                                          SCORE_CAP)

\* an introductory course that two skill categories of the profile make
\* easier: the adjustment is -1.0
C23_Witness ==
    /\ Scored
    /\ Cardinality(EasedCategories) = 2
    /\ AnyIn(introductory_keywords, Lower(course.name))
    /\ frame.difficulty_bonus = -10

\* an advanced course no category makes easier: the adjustment is 3.0
C23_WitnessAdvanced ==
    /\ Scored
    /\ EasedCategories = {}
    /\ frame.difficulty_bonus = 30

\* C26: the score the scorer has accumulated before the floor rule and the
\* clamp is at least 1.0: the base difficulty is at least 1.0, and every
\* skill category that lowers the difficulty by 1.0 adds a skill term of at
\* least 1.5.
C26_AccumulatedAtLeastOne ==
    Scored =>
        /\ frame.accumulated >= 10
        /\ frame.difficulty_bonus + 10 * Cardinality(EasedCategories) >= 10
        /\ \A k \in EasedCategories :
               /\ frame.skill_terms[k] # <<>>
               /\ frame.skill_terms[k][1] >= 15
        /\ frame.score = frame.accumulated
        \* every word by which a category lowers the difficulty is a word of
        \* the generic list of the category's skill loop
        /\ \A k \in 1..3 : \A n \in 1..Len(DifficultyKeywords[k]) :
               InList(DifficultyKeywords[k][n],
                      << technical_course_keywords, math_course_keywords,
                         business_course_keywords >>[k])

\* an introductory course that a skill category makes easier: the
\* difficulty adjustment is 0 and the score is the skill term
C26_Witness ==
    /\ Scored
    /\ Cardinality(EasedCategories) = 1
    /\ frame.difficulty_bonus = 0
    /\ frame.accumulated = frame.compatibility_score

\* the least score: an introductory course and a profile it matches nowhere
C26_WitnessLeast ==
    /\ Scored
    /\ frame.accumulated = 10

---------------------------------------------------------------------------
(* Properties of the reason sentence *)

\* the sentences of the last if/elif/else of
\* _generate_concrete_recommendation_reason (lines 1132-1148)
GenericRules ==
    { "generic: excellent choice for a developer in",
      "generic: excellent choice, your knowledge of",
      "generic: excellent choice",
      "generic: good choice, your experience helps",
      "generic: good choice, extra preparation advised",
      "generic: may be hard, a chance to grow" }

\* the tier of a score or sub-score: >= 4.0, >= 2.0, below 2.0
Tier(x) ==
    IF x >= MEDIUM_SCORE_THRESHOLD THEN "medium or more"
    ELSE IF x >= LOW_SCORE_THRESHOLD THEN "low"
    ELSE "below low"

\* C24: when no specific rule matches, the reason sentence is selected by
\* the tier of the Recommendation's compatibility_score only: two
\* evaluations with no specific rule and compatibility scores of one tier
\* have the same generic sentence.
C24_FallbackByCompatibilityTier ==
    \A i, j \in 1..Len(calls) :
        (/\ calls[i].result.reason.rule \in GenericRules
         /\ calls[j].result.reason.rule \in GenericRules
         /\ Tier(calls[i].result.compatibility_score)
                = Tier(calls[j].result.compatibility_score))
            => calls[i].result.reason.rule = calls[j].result.reason.rule

\* what the code does: the generic sentence goes by the tier of the whole
\* score (line 898 passes `score`), and within a tier by the profile
C24_CodeFallbackByScoreTier ==
    (Scored /\ recommendation.reason.rule \in GenericRules) =>
        recommendation.reason.rule =
            CASE Tier(frame.score) = "medium or more" ->
                     (IF profile.programming_skills # <<>>
                      THEN "generic: excellent choice for a developer in"
                      ELSE IF profile.math_skills # <<>>
                      THEN "generic: excellent choice, your knowledge of"
                      ELSE "generic: excellent choice")
              [] Tier(frame.score) = "low" ->
                     (IF profile.work_experience = HAS_EXPERIENCE
                      THEN "generic: good choice, your experience helps"
                      ELSE "generic: good choice, extra preparation advised")
              [] OTHER -> "generic: may be hard, a chance to grow"

---------------------------------------------------------------------------
(* Properties of the profile extractor: the single-valued fields *)

\* "техническое"
EDU_TECHNICAL == <<1090,1077,1093,1085,1080,1095,1077,1089,1082,1086,1077>>

\* the text has a keyword of the education level
Names(level) ==
    \E n \in 1..Len(education_keywords) :
        /\ education_keywords[n].key = level
        /\ AnyIn(education_keywords[n].keywords, Lower(background))

\* C25: the education level is the first of bachelor, master, doctoral,
\* technical with a keyword in the text, bachelor when there is none; the
\* time availability is full day if a full-day word occurs, else part time
\* if a part-time word occurs, else standard; the work experience is 'есть
\* опыт' iff an experience word occurs, else 'нет опыта'.
C25_SingleValuedFields ==
    Extracted =>
        /\ profile.education_level =
               (IF Names(EDU_BACHELOR) THEN EDU_BACHELOR
                ELSE IF Names(EDU_MASTER) THEN EDU_MASTER
                ELSE IF Names(EDU_DOCTORAL) THEN EDU_DOCTORAL
                ELSE IF Names(EDU_TECHNICAL) THEN EDU_TECHNICAL
                ELSE EDU_BACHELOR)
        /\ profile.education_level \in {EDU_BACHELOR, EDU_MASTER, EDU_DOCTORAL, EDU_TECHNICAL}
        /\ profile.time_availability =
               (IF AnyIn(full_time_keywords, Lower(background)) THEN TIME_FULL
                ELSE IF AnyIn(part_time_keywords, Lower(background)) THEN TIME_PART
                ELSE TIME_STANDARD)
        /\ profile.time_availability \in {TIME_FULL, TIME_PART, TIME_STANDARD}
        /\ (profile.work_experience = HAS_EXPERIENCE)
               <=> AnyIn(experience_keywords, Lower(background))
        /\ profile.work_experience \in {HAS_EXPERIENCE, NO_EXPERIENCE}

\* a text that names the part-time form before the full-time form, and the
\* doctoral level before the master level
C25_Witness ==
    /\ Extracted
    \* "вечерняя форма, очная форма, "
    /\ background = <<1074,1077,1095,1077,1088,1085,1103,1103,32,1092,1086,1088,1084,1072,44,32,1086,1095,1085,1072,1103,32,1092,1086,1088,1084,1072,44,32>>
    /\ profile.time_availability = TIME_FULL

C25_WitnessEducation ==
    /\ Extracted
    \* "Аспирант. магистр "
    /\ background = <<1040,1089,1087,1080,1088,1072,1085,1090,46,32,1084,1072,1075,1080,1089,1090,1088,32>>
    /\ profile.education_level = EDU_MASTER
    /\ profile.work_experience = NO_EXPERIENCE


---------------------------------------------------------------------------
(* C29: fetch_page *)

Last(s) == s[Len(s)]

\* a call of fetch_page is running
FetchRunning == pc \in {"get", "sleep"}

\* what the claim says of a finished call
FetchedAsClaimed(c) ==
    /\ ~c.raised
    /\ c.returned \in ServerPages
    /\ Len(c.log) <= max_retries
    /\ \A k \in 1..(Len(c.log) - 1) : c.log[k].kind = "ClientError"
    /\ (c.session = "None") => (c.log = <<>> /\ c.returned = EMPTY_PAGE)
    /\ (c.session # "None") => c.log # <<>>
    /\ c.log # <<>> =>
          /\ (Last(c.log).kind = "text") => (c.returned = Last(c.log).content)
          /\ (Last(c.log).kind = "ClientError") =>
                (Len(c.log) = max_retries /\ c.returned = EMPTY_PAGE)
          /\ (Last(c.log).kind = "Exception") => (c.returned = EMPTY_PAGE)

\* C29: every call of fetch_page ends, with a string and without an
\* exception; it makes at most max_retries GETs, each but the last ended by a
\* client error; it returns '' with no GET when no session is open, '' after
\* a client error on the last attempt, '' at once after any other exception,
\* and the text of the response of the first GET that succeeds.
C29_FetchPageTerminates ==
    /\ [](\A n \in 1..Len(calls) : FetchedAsClaimed(calls[n]))
    /\ [](Len(locals.log) <= max_retries /\ ~locals.raised)
    /\ (FetchRunning ~> (pc = "returned"))

\* a call that gave up after max_retries client errors
C29_Witness ==
    /\ pc = "returned"
    /\ calls # <<>>
    /\ Len(Last(calls).log) = max_retries
    /\ Last(Last(calls).log).kind = "ClientError"
    /\ Last(calls).returned = EMPTY_PAGE

\* a call whose third GET succeeded, and one ended by another exception
C29_WitnessRetried ==
    /\ Len(calls) = 2
    /\ Len(calls[1].log) = max_retries
    /\ Last(calls[1].log).kind = "text"
    /\ calls[1].returned = RICH_PAGE
    /\ calls[2].sleeps = <<1>>
    /\ Last(calls[2].log).kind = "Exception"

---------------------------------------------------------------------------
(* C27: the pending background of a user *)

\* the entry of the user in user_states
StateOf(b, user_id) ==
    IF user_id \in DOMAIN b.user_states THEN b.user_states[user_id] ELSE "absent"

\* the text was taken as a background description
AsBackground(c) == c.result \in {"get_course_recommendations", "still loading"}

\* before the n-th update its user pressed 'recommend' with the catalog
\* loaded and has since sent neither /start nor a text
PressedRecommend(n) ==
    \E m \in 1..(n - 1) :
        /\ calls[m].user_id = calls[n].user_id
        /\ calls[m].op = "recommend"
        /\ calls[m].loaded
        /\ \A k \in (m + 1)..(n - 1) :
               calls[k].user_id = calls[n].user_id
                   => calls[k].op \notin {"start_command", "handle_message"}

\* task t took the step
Stepped(t) == locals'[t] # locals[t]

\* C27: a text of a user is handled as a background description iff the user
\* pressed 'recommend' with the catalog loaded and has since sent neither
\* /start nor another text; while it is handled the user's pending state is
\* cleared; and the pending state of a user changes only in a step of a
\* handler of an update of that user.
C27_PendingBackground ==
    /\ [](\A n \in 1..Len(calls) :
              calls[n].op = "handle_message" => (AsBackground(calls[n]) <=> PressedRecommend(n)))
    /\ [](\A t \in Tasks :
              locals[t].op = "handle_message" => StateOf(bot, locals[t].user_id) # WAITING_BACKGROUND)
    /\ [][\A user_id \in Users :
              StateOf(bot', user_id) # StateOf(bot, user_id)
                  => \E t \in Tasks : Stepped(t) /\ user_id \in {locals[t].user_id, locals'[t].user_id}]_vars

\* a user presses 'recommend' and writes twice: the first text is the
\* background, the second a question
C27_Witness ==
    /\ Len(calls) = 3
    /\ calls[1].op = "recommend" /\ calls[1].loaded
    /\ calls[2].op = "handle_message" /\ calls[2].result = "get_course_recommendations"
    /\ calls[3].op = "handle_message" /\ calls[3].result = "_analyze_question"
    /\ calls[2].user_id = calls[1].user_id
    /\ calls[3].user_id = calls[1].user_id

\* /start of another user comes between the press and the text
C27_WitnessOtherUser ==
    /\ Len(calls) = 3
    /\ calls[1].op = "recommend" /\ calls[1].user_id = 1
    /\ calls[2].op = "start_command" /\ calls[2].user_id = 2
    /\ calls[3].op = "handle_message" /\ calls[3].user_id = 1
    /\ calls[3].result = "get_course_recommendations"

---------------------------------------------------------------------------
(* C28: the catalog and the engine of the bot under concurrent handlers *)

\* the analyzer, if there is one, was built from the list the bot holds
BuiltFromPrograms(b) ==
    b.analyzer # <<>> => (b.programs # <<>> /\ b.analyzer[1].programs = b.programs[1])

\* the load of task t ends in this step without two non-empty pages
LoadFails(t) ==
    /\ locals[t].pc \in {"announce", "fetch_ai_product"}
    /\ locals'[t].pc = "loaded"
    /\ \/ locals[t].pc = "announce"
       \/ locals'[t].ai_html.html = <<>>
       \/ locals'[t].ai_product_html.html = <<>>

\* C28: whenever the analyzer is set the programs are set and the analyzer
\* was built from that very list; a load that fails leaves both as they
\* were; neither is ever reset to None.
C28_AnalyzerOfPrograms ==
    /\ []BuiltFromPrograms(bot)
    /\ [][\A t \in Tasks : LoadFails(t) =>
              (bot'.programs = bot.programs /\ bot'.analyzer = bot.analyzer)]_vars
    /\ [][/\ bot.programs # <<>> => bot'.programs # <<>>
          /\ bot.analyzer # <<>> => bot'.analyzer # <<>>]_vars

\* two handlers have both loaded a catalog; the one that came first assigned last
C28_Witness ==
    /\ locals[1].pc = "loaded" /\ locals[2].pc = "loaded"
    /\ locals[1].ai_html.html # <<>> /\ locals[1].ai_product_html.html # <<>>
    /\ locals[2].ai_html.html # <<>> /\ locals[2].ai_product_html.html # <<>>
    /\ bot.programs # <<>>
    /\ bot.programs[1].id = 1

\* a load has failed after another handler's load succeeded
C28_WitnessFailed ==
    /\ locals[1].pc = "loaded"
    /\ locals[1].ai_product_html.html = <<>>
    /\ bot.analyzer # <<>>
    /\ bot.analyzer[1].programs.id = 2

---------------------------------------------------------------------------
(* C30: the program buttons on the parser's catalog *)

\* the program the button is for: 1 the AI program, 2 the product program
\* "program_"  "career_"
Intended(data) == IF StartsWith(Remove(Remove(Remove(data, <<112,114,111,103,114,97,109,95>>), <<99,97,114,101,101,114,95>>),
                                       \* "admission_"  "ai_product"
                                       <<97,100,109,105,115,115,105,111,110,95>>), <<97,105,95,112,114,111,100,117,99,116>>)
                  THEN 2 ELSE 1

\* the reply is about the program prog
Shows(reply, data, prog, n) ==
    \* "career_"
    IF StartsWith(data, <<99,97,114,101,101,114,95>>)
    THEN reply = << Piece("text", IF n = 1 THEN CAREER_PATHS_AI ELSE CAREER_PATHS_PRODUCT) >>
    ELSE /\ reply[1] = Piece("name", prog.name)
         \* "program_"
         /\ IF StartsWith(data, <<112,114,111,103,114,97,109,95>>)
            THEN reply[2] = Piece("institute", prog.institute)
            \* "Доступно"
            ELSE reply[3] = Piece("dormitory", IF prog.dormitory THEN <<1044,1086,1089,1090,1091,1087,1085,1086>>
                                               \* "Недоступно"
                                               ELSE <<1053,1077,1076,1086,1089,1090,1091,1087,1085,1086>>)

\* C30: on the catalog the parser produces the lookup for 'Искусственный
\* интеллект' finds the AI program and the lookup for 'AI Product Management'
\* the product program, every program, career and admission button is
\* answered about its own program, and none with the not-found text.
C30_ButtonsResolve ==
    bot.analyzer # <<>> =>
        LET progs == bot.analyzer[1].programs.items
        IN  /\ progs[1].name = AIProgramName
            /\ progs[2].name = ProductProgramName
            \* "Искусственный интеллект"
            /\ _find_program_by_name(progs, <<1048,1089,1082,1091,1089,1089,1090,1074,1077,1085,1085,1099,1081,32,1080,1085,1090,1077,1083,1083,1077,1082,1090>>) = << progs[1] >>
            \* "AI Product Management"
            /\ _find_program_by_name(progs, <<65,73,32,80,114,111,100,117,99,116,32,77,97,110,97,103,101,109,101,110,116>>) = << progs[2] >>
            /\ \A n \in 1..Len(calls) :
                   calls[n].data \in MenuButtons =>
                       /\ calls[n].report # << Piece("text", NOT_FOUND) >>
                       /\ Shows(calls[n].report, calls[n].data,
                                progs[Intended(calls[n].data)], Intended(calls[n].data))

\* the career button and the admission button of the product program have
\* been pressed on a catalog parsed from two different pages
C30_Witness ==
    /\ bot.analyzer # <<>>
    /\ Len(calls) = 2
    \* "career_ai_product"
    /\ calls[1].data = <<99,97,114,101,101,114,95,97,105,95,112,114,111,100,117,99,116>>
    /\ calls[1].report = << Piece("text", CAREER_PATHS_PRODUCT) >>
    \* "admission_ai_product"
    /\ calls[2].data = <<97,100,109,105,115,115,105,111,110,95,97,105,95,112,114,111,100,117,99,116>>
    /\ calls[2].report[1] = Piece("name", ProductProgramName)
    \* "599 000 ₽"
    /\ calls[2].report[2] = Piece("cost", <<53,57,57,32,48,48,48,32,8381>>)
    /\ bot.programs[1].items[1].cost = <<>>

\* the program button of the AI program, and a button no menu has
C30_WitnessProgram ==
    /\ bot.analyzer # <<>>
    /\ Len(calls) = 2
    \* "program_ai"
    /\ calls[1].data = <<112,114,111,103,114,97,109,95,97,105>>
    /\ calls[1].report[1] = Piece("name", AIProgramName)
    \* "Институт прикладных компьютерных наук"
    /\ calls[1].report[2] = Piece("institute", <<1048,1085,1089,1090,1080,1090,1091,1090,32,1087,1088,1080,1082,1083,1072,1076,1085,1099,1093,32,1082,1086,1084,1087,1100,1102,1090,1077,1088,1085,1099,1093,32,1085,1072,1091,1082>>)
    \* "program_data_science"
    /\ calls[2].data = <<112,114,111,103,114,97,109,95,100,97,116,97,95,115,99,105,101,110,99,101>>
    /\ calls[2].report = << Piece("text", NOT_FOUND) >>
=============================================================================
